---------------------------- MODULE Spec2Model ----------------------------
(***************************************************************************)
(* A model of the SNOdar RS-232 utilities:                                 *)
(*   - snodar_live_health.py : parse_flags, check_flags                    *)
(*   - snolog_parser.py      : Snolog, parse_raw_snolog, the CSV helpers   *)
(*   - manual_data_capture.py and rs232_data_capture.py : sigint_handler,  *)
(*     trigger_lidar_conversion, read_snolog, lidar_control, main          *)
(*                                                                         *)
(* Four specifications share the variables:                                *)
(*   FlagsSpec  : the health-flag decoder applied to every byte pair       *)
(*   DecodeSpec : the packet decoder applied to buffers of many lengths    *)
(*   HexSpec    : parse_hex_file applied to files of many lengths          *)
(*   Spec       : the acquisition loop, the display consumer and SIGINT    *)
(***************************************************************************)
EXTENDS Integers, Sequences, FiniteSets, TLC

VARIABLES
    \* ---- snodar_live_health.py under test (FlagsSpec)
    fpc,                  \* "input" | "parsed" | "checked" | "idle"
    health_flags_high,    \* argument of parse_flags
    health_flags_low,     \* argument of parse_flags
    live_health,          \* the SnodarLiveHealthFlags tuple, or NoValue
    warned,               \* the messages passed to warnings.warn, in call order
    \* ---- snolog_parser.py under test (DecodeSpec)
    dpc,                  \* "input" | "parsed" | "idle"
    raw_bytes,            \* argument of parse_raw_snolog
    parsed,               \* its outcome: a record or an exception
    \* ---- snolog_parser.parse_hex_file under test (HexSpec)
    hpc,                  \* "reading" | "writing" | "done" | "idle"
    hex_file,             \* the bytes of the input file
    hex_pos,              \* the read position of hex_file
    snolog_entries,       \* parse_hex_file's local
    hex_csv,              \* the csv file parse_hex_file writes
    \* ---- add_health_flags_to_csv.main under test (AugSpec)
    gpc,                  \* "start" | "parsed" | "done" | "failed" | "idle"
    aug_input,            \* where the csv file came from, and its flag bytes
    aug_file,             \* the csv file: its header and its rows
    aug_rows,             \* main's local `rows`
    aug_failure,          \* the exception that ended main, or NoValue
    \* ---- read_rs232_data of rs232_ascii_data_logger.py (AsciiSpec)
    lines,                \* the lines readline has returned, oldest first
    csv_string,           \* the line being processed
    data,                 \* <<>>, or <<the list of floats parsed from it>>
    \* ---- the host (shared)
    byteorder,            \* sys.byteorder: "=" in a struct format is the host's
    snan_quieted,         \* does the interpreter's float32 -> double conversion
                          \* set the quiet bit of a signalling NaN
    \* ---- the capture programs (Spec)
    prog,                 \* "manual" (manual_data_capture) | "rs232" (rs232_data_capture)
    measurement_interval, \* --measurement-interval
    read_delay,           \* --read-delay
    interrupted,          \* the module global
    sigint_count,         \* sigint_handler.sigint_count
    sigint_output,        \* what sigint_handler printed, in order
    proc,                 \* "running" | "exited" (sys.exit(0)) | "killed" (os._exit(1))
    wpc,                  \* position of the lidar_control thread
    mpc,                  \* position of the main thread
    now,                  \* time(), in seconds since the last Trigger write (the
                          \* code only uses differences of time(), so the clock's
                          \* origin is moved to each trigger)
    t_start,              \* lidar_control's local
    raw_snolog,           \* lidar_control's local
    snolog,               \* lidar_control's local
    health_flags,         \* lidar_control's local (manual only)
    port,                 \* the serial.Serial object: is it open, the close()
                          \* calls, the byte count its last write() returned
    csv_file,             \* the csv log: does it exist, and its rows
    earlier_rows,         \* the rows the csv log held when the program started
    queue,                \* Queue(maxsize=2)
    timestamp,            \* fetch_data's local
    plotted,              \* the frames fetch_data yielded
    output,               \* what the worker printed or warned since the last
                          \* Trigger write began, in order
    failure,              \* the exception that ended the worker thread, or NoValue
    \* ---- history (bookkeeping for the properties; no code reads these)
    cycles,               \* number of Trigger writes
    last_period,          \* the time between the last two Trigger writes
    cost,                 \* how long the device took to answer the last trigger
    stopped_at            \* when interrupted became TRUE: was the worker in its
                          \* Delay step, and how many triggers it had written

flagVars == <<fpc, health_flags_high, health_flags_low, live_health, warned>>
decodeVars == <<dpc, raw_bytes, parsed>>
hexVars == <<hpc, hex_file, hex_pos, snolog_entries, hex_csv>>
augVars == <<gpc, aug_input, aug_file, aug_rows, aug_failure>>
asciiVars == <<lines, csv_string, data>>
hostVars == <<byteorder, snan_quieted>>
argVars == <<prog, measurement_interval, read_delay, earlier_rows>>
sigVars == <<interrupted, sigint_count, sigint_output, proc, stopped_at>>
workerVars == <<wpc, now, t_start, raw_snolog, snolog, health_flags, port,
                csv_file, output, failure, cycles, last_period, cost>>
mainVars == <<mpc, timestamp, plotted>>
acqVars == <<argVars, sigVars, workerVars, mainVars, queue>>
vars == <<flagVars, decodeVars, hexVars, augVars, asciiVars, hostVars, acqVars>>

NoValue == "None"

---------------------------------------------------------------------------
(* Bounds of the model.                                                    *)

\* the longest buffer handed to parse_raw_snolog
MaxBufLen == 130
\* the largest --measurement-interval tried
MaxInterval == 2
\* the largest --read-delay tried
MaxDelay == 1
\* the longest time the device takes to answer a trigger
MaxCost == 1
\* Trigger writes per run
MaxCycles == 2
\* the longest file handed to parse_hex_file
MaxHexLen == 260

---------------------------------------------------------------------------
(* Integer helpers: Python's int operators.                                *)

RECURSIVE Pow2(_)
Pow2(k) == IF k = 0 THEN 1 ELSE 2 * Pow2(k - 1)

\* a << k
Shl(a, k) == a * Pow2(k)

\* a >> k
Shr(a, k) == a \div Pow2(k)

\* a & b for non-negative ints
RECURSIVE BitAnd(_, _)
BitAnd(a, b) ==
    IF a = 0 \/ b = 0 THEN 0
    ELSE 2 * BitAnd(a \div 2, b \div 2)
         + (IF a % 2 = 1 /\ b % 2 = 1 THEN 1 ELSE 0)

\* Python truthiness of an int
Truthy(n) == n # 0

Byte == 0..255

RECURSIVE SumSeq(_)
SumSeq(s) == IF s = <<>> THEN 0 ELSE Head(s) + SumSeq(Tail(s))

Range(s) == {s[i] : i \in DOMAIN s}

IndexOf(s, x) == CHOOSE i \in DOMAIN s : s[i] = x

---------------------------------------------------------------------------
(* snodar_live_health.py                                                   *)

\* SnodarLiveHealthFlags._fields
SnodarLiveHealthFlags_fields ==
    << "lidar_count_ok", "lidar_time_ok", "lidar_registers_ok",
       "rtc_read_ok", "rtc_time_increased",
       "ina_voltage_ok", "ina_current_ok", "nrf_temperature_ok",
       "tmp1075_temperature_ok", "lidar_pcb_temperature_ok",
       "lidar_soc_temperature_ok", "imu_ready", "imu_quaternion_ok" >>

\* Low-byte flag bitmasks
IMU_READY == Shl(1, 0)
INA_V_ROK == Shl(1, 1)
INA_A_ROK == Shl(1, 2)
NRF_ROK == Shl(1, 3)
TMP_ROK == Shl(1, 4)
LDR_PCB_ROK == Shl(1, 5)
LDR_SOC_ROK == Shl(1, 6)
IMU_DOK == Shl(1, 7)

\* High-byte flag bitmasks
RTC_ROK == Shl(1, 0)
RTC_TOK == Shl(1, 1)
LIDAR_CNT_OK == Shl(1, 2)
LIDAR_TOK == Shl(1, 3)
LIDAR_REG_OK == Shl(1, 4)

\* mutant: the rtc and lidar masks of the high byte are taken from the wrong bits
parse_flags_swapped(high, low) ==
    [ lidar_count_ok           |-> Truthy(BitAnd(high, RTC_ROK)),
      lidar_time_ok            |-> Truthy(BitAnd(high, RTC_TOK)),
      lidar_registers_ok       |-> Truthy(BitAnd(high, LIDAR_REG_OK)),
      rtc_read_ok              |-> Truthy(BitAnd(high, LIDAR_CNT_OK)),
      rtc_time_increased       |-> Truthy(BitAnd(high, LIDAR_TOK)),
      ina_voltage_ok           |-> Truthy(BitAnd(low, INA_V_ROK)),
      ina_current_ok           |-> Truthy(BitAnd(low, INA_A_ROK)),
      nrf_temperature_ok       |-> Truthy(BitAnd(low, NRF_ROK)),
      tmp1075_temperature_ok   |-> Truthy(BitAnd(low, TMP_ROK)),
      lidar_pcb_temperature_ok |-> Truthy(BitAnd(low, LDR_PCB_ROK)),
      lidar_soc_temperature_ok |-> Truthy(BitAnd(low, LDR_SOC_ROK)),
      imu_ready                |-> Truthy(BitAnd(low, IMU_READY)),
      imu_quaternion_ok        |-> Truthy(BitAnd(low, IMU_DOK)) ]

\* mutant: lidar_registers_ok is tested against a two-bit mask (3 << 4)
parse_flags_widemask(high, low) ==
    [ lidar_count_ok           |-> Truthy(BitAnd(high, LIDAR_CNT_OK)),
      lidar_time_ok            |-> Truthy(BitAnd(high, LIDAR_TOK)),
      lidar_registers_ok       |-> Truthy(BitAnd(high, Shl(3, 4))),
      rtc_read_ok              |-> Truthy(BitAnd(high, RTC_ROK)),
      rtc_time_increased       |-> Truthy(BitAnd(high, RTC_TOK)),
      ina_voltage_ok           |-> Truthy(BitAnd(low, INA_V_ROK)),
      ina_current_ok           |-> Truthy(BitAnd(low, INA_A_ROK)),
      nrf_temperature_ok       |-> Truthy(BitAnd(low, NRF_ROK)),
      tmp1075_temperature_ok   |-> Truthy(BitAnd(low, TMP_ROK)),
      lidar_pcb_temperature_ok |-> Truthy(BitAnd(low, LDR_PCB_ROK)),
      lidar_soc_temperature_ok |-> Truthy(BitAnd(low, LDR_SOC_ROK)),
      imu_ready                |-> Truthy(BitAnd(low, IMU_READY)),
      imu_quaternion_ok        |-> Truthy(BitAnd(low, IMU_DOK)) ]

\* parse_flags(health_flags_high, health_flags_low)
parse_flags(high, low) ==
    [ lidar_count_ok           |-> Truthy(BitAnd(high, LIDAR_CNT_OK)),
      lidar_time_ok            |-> Truthy(BitAnd(high, LIDAR_TOK)),
      lidar_registers_ok       |-> Truthy(BitAnd(high, LIDAR_REG_OK)),
      rtc_read_ok              |-> Truthy(BitAnd(high, RTC_ROK)),
      rtc_time_increased       |-> Truthy(BitAnd(high, RTC_TOK)),
      ina_voltage_ok           |-> Truthy(BitAnd(low, INA_V_ROK)),
      ina_current_ok           |-> Truthy(BitAnd(low, INA_A_ROK)),
      nrf_temperature_ok       |-> Truthy(BitAnd(low, NRF_ROK)),
      tmp1075_temperature_ok   |-> Truthy(BitAnd(low, TMP_ROK)),
      lidar_pcb_temperature_ok |-> Truthy(BitAnd(low, LDR_PCB_ROK)),
      lidar_soc_temperature_ok |-> Truthy(BitAnd(low, LDR_SOC_ROK)),
      imu_ready                |-> Truthy(BitAnd(low, IMU_READY)),
      imu_quaternion_ok        |-> Truthy(BitAnd(low, IMU_DOK)) ]

\* one `if not live_health.<field>: warnings.warn(<msg>)` of check_flags
WarnIfNot(lh, field, msg) == IF ~lh[field] THEN <<msg>> ELSE <<>>

\* mutant: the imu_ready test is an elif of the lidar SoC test
check_flags_elif(lh) ==
    WarnIfNot(lh, "lidar_count_ok", "lidar measurement count was not ok")
    \o WarnIfNot(lh, "lidar_time_ok", "lidar timeout occurred!")
    \o WarnIfNot(lh, "lidar_registers_ok", "lidar registers were not ok")
    \o WarnIfNot(lh, "rtc_read_ok", "RTC read was not ok")
    \o WarnIfNot(lh, "rtc_time_increased", "RTC time didn't increase")
    \o WarnIfNot(lh, "ina_voltage_ok", "INA voltage read was not ok")
    \o WarnIfNot(lh, "ina_current_ok", "INA current read was not ok")
    \o WarnIfNot(lh, "nrf_temperature_ok", "nRF temperature read was not ok")
    \o WarnIfNot(lh, "tmp1075_temperature_ok", "TMP1075 temperature read was not ok")
    \o WarnIfNot(lh, "lidar_pcb_temperature_ok", "lidar pcb temperature read was not ok")
    \o (IF ~lh["lidar_soc_temperature_ok"]
        THEN <<"lidar SoC temperature read was not ok">>
        ELSE WarnIfNot(lh, "imu_ready", "IMU data was not ready"))
    \o WarnIfNot(lh, "imu_quaternion_ok", "IMU quaternion was not ok")

\* mutant: the rtc tests come before the lidar tests
check_flags_reordered(lh) ==
    WarnIfNot(lh, "rtc_read_ok", "RTC read was not ok")
    \o WarnIfNot(lh, "rtc_time_increased", "RTC time didn't increase")
    \o WarnIfNot(lh, "lidar_count_ok", "lidar measurement count was not ok")
    \o WarnIfNot(lh, "lidar_time_ok", "lidar timeout occurred!")
    \o WarnIfNot(lh, "lidar_registers_ok", "lidar registers were not ok")
    \o WarnIfNot(lh, "ina_voltage_ok", "INA voltage read was not ok")
    \o WarnIfNot(lh, "ina_current_ok", "INA current read was not ok")
    \o WarnIfNot(lh, "nrf_temperature_ok", "nRF temperature read was not ok")
    \o WarnIfNot(lh, "tmp1075_temperature_ok", "TMP1075 temperature read was not ok")
    \o WarnIfNot(lh, "lidar_pcb_temperature_ok", "lidar pcb temperature read was not ok")
    \o WarnIfNot(lh, "lidar_soc_temperature_ok", "lidar SoC temperature read was not ok")
    \o WarnIfNot(lh, "imu_ready", "IMU data was not ready")
    \o WarnIfNot(lh, "imu_quaternion_ok", "IMU quaternion was not ok")

\* check_flags(live_health): the messages it passes to warnings.warn, in order
check_flags(lh) ==
    WarnIfNot(lh, "lidar_count_ok", "lidar measurement count was not ok")
    \o WarnIfNot(lh, "lidar_time_ok", "lidar timeout occurred!")
    \o WarnIfNot(lh, "lidar_registers_ok", "lidar registers were not ok")
    \o WarnIfNot(lh, "rtc_read_ok", "RTC read was not ok")
    \o WarnIfNot(lh, "rtc_time_increased", "RTC time didn't increase")
    \o WarnIfNot(lh, "ina_voltage_ok", "INA voltage read was not ok")
    \o WarnIfNot(lh, "ina_current_ok", "INA current read was not ok")
    \o WarnIfNot(lh, "nrf_temperature_ok", "nRF temperature read was not ok")
    \o WarnIfNot(lh, "tmp1075_temperature_ok", "TMP1075 temperature read was not ok")
    \o WarnIfNot(lh, "lidar_pcb_temperature_ok", "lidar pcb temperature read was not ok")
    \o WarnIfNot(lh, "lidar_soc_temperature_ok", "lidar SoC temperature read was not ok")
    \o WarnIfNot(lh, "imu_ready", "IMU data was not ready")
    \o WarnIfNot(lh, "imu_quaternion_ok", "IMU quaternion was not ok")

---------------------------------------------------------------------------
(* snolog_parser.py                                                        *)

\* Snolog._fields
Snolog_fields ==
    << "id", "version", "length", "unix_time", "power_mA", "power_V",
       "pcb_temperature", "imu_temperature",
       "imu_quaternian0", "imu_quaternian1", "imu_quaternian2", "imu_quaternian3",
       "imu_roll", "imu_pitch", "imu_yaw",
       "imu_flag", "heater_enable",
       "lidar_soc_temperature", "lidar_pcb_temperature",
       "lidar_raw_distance", "lidar_doff_distance", "lidar_tc_distance",
       "lidar_meas_time", "lidar_status", "nrf_temperature",
       "outside_temperature", "seasonal_snow_depth", "seasonsal_snow_fall",
       "new_snow_fall", "doy_swe", "temp_swe",
       "sc_daily_max_time", "sc_daily_max_depth",
       "sc_daily_min_time", "sc_daily_min_depth",
       "sc_abs_min_time", "sc_abs_min_depth",
       "sc_min_max_cntr", "sc_daily_acc_sf",
       "health_flags_lo", "health_flag_hi", "reserved", "checksum" >>

\* the format characters of parse_raw_snolog's struct.unpack call, after "="
FORMAT ==
    <<
       "B", "B", "H", "L", "h", "h", "f", "f", "f", "f", "f", "f",
       "f", "f", "f", "B", "B", "b", "b", "f", "f", "f", "H", "B",
       "b", "f", "f", "f", "f", "f", "f", "l", "f", "l", "f", "l",
       "f", "l", "f", "B", "B", "B", "B" >>

\* mutant: native sizes ("@"), where an unsigned long takes 8 bytes
SizeOfNative(c) ==
    CASE c \in {"B", "b"} -> 1
      [] c \in {"H", "h"} -> 2
      [] c \in {"l", "f"} -> 4
      [] c = "L" -> 8

\* the standard size of a format character (byte order "=")
SizeOf(c) ==
    CASE c \in {"B", "b"} -> 1
      [] c \in {"H", "h"} -> 2
      [] c \in {"L", "l", "f"} -> 4

\* struct.calcsize: "=" means no padding
calcsize(fmt) == SumSeq([i \in DOMAIN fmt |-> SizeOf(fmt[i])])

\* the offset (0-based) of the k-th item (1-based) of a format
OffsetOf(fmt, k) == calcsize(SubSeq(fmt, 1, k - 1))

\* the bytes of an item, least significant first, in the host's byte order
LsbFirst(bs) ==
    IF byteorder = "little" THEN bs
    ELSE [i \in 1..Len(bs) |-> bs[Len(bs) + 1 - i]]

RECURSIVE UnsignedLE(_)
UnsignedLE(bs) == IF bs = <<>> THEN 0 ELSE Head(bs) + 256 * UnsignedLE(Tail(bs))

\* a 1- or 2-byte unsigned integer
Unsigned(bs) == UnsignedLE(LsbFirst(bs))

\* mutant: sign and magnitude instead of two's complement
Signed_magnitude(bs) ==
    LET u == Unsigned(bs)
        w == 8 * Len(bs)
    IN IF u >= Pow2(w - 1) THEN Pow2(w - 1) - u ELSE u

\* a 1- or 2-byte two's complement integer
Signed(bs) ==
    LET u == Unsigned(bs)
        w == 8 * Len(bs)
    IN IF u >= Pow2(w - 1) THEN u - Pow2(w) ELSE u

\* the upper and the lower 16 bits of a 4-byte item
Hi16(bs) == UnsignedLE(SubSeq(LsbFirst(bs), 3, 4))
Lo16(bs) == UnsignedLE(SubSeq(LsbFirst(bs), 1, 2))

\* a 4-byte unsigned integer hi * 65536 + lo, kept as its two halves
\* (it may exceed the 31 bits of the checker's integers)
Unsigned32(bs) == [hi |-> Hi16(bs), lo |-> Lo16(bs)]

\* a 4-byte two's complement integer
Signed32(bs) ==
    IF Hi16(bs) >= Pow2(15)
    THEN (Hi16(bs) - Pow2(16)) * Pow2(16) + Lo16(bs)
    ELSE Hi16(bs) * Pow2(16) + Lo16(bs)

\* mutant: every NaN is read as the one canonical quiet NaN
Float32_canonical_nan(bs) ==
    LET e == (Hi16(bs) \div Pow2(7)) % 256
        f == (Hi16(bs) % Pow2(7)) * Pow2(16) + Lo16(bs)
    IN IF e = 255 /\ f # 0
       THEN [sign |-> 0, exponent |-> 255, fraction |-> Pow2(22)]
       ELSE [sign |-> Hi16(bs) \div Pow2(15), exponent |-> e, fraction |-> f]

\* an IEEE-754 binary32 as the Python float it becomes, kept as its three
\* parts. The item is widened from float to double: where that conversion
\* quiets a signalling NaN (exponent 255, fraction not 0, bit 22 clear), bit 22
\* of the fraction comes out set.
Float32(bs) ==
    LET e == (Hi16(bs) \div Pow2(7)) % 256
        f == (Hi16(bs) % Pow2(7)) * Pow2(16) + Lo16(bs)
    IN [sign |-> Hi16(bs) \div Pow2(15),
        exponent |-> e,
        fraction |-> IF snan_quieted /\ e = 255 /\ f # 0 /\ f < Pow2(22)
                     THEN f + Pow2(22)
                     ELSE f]

UnpackItem(c, bs) ==
    CASE c \in {"B", "H"} -> Unsigned(bs)
      [] c \in {"b", "h"} -> Signed(bs)
      [] c = "L" -> Unsigned32(bs)
      [] c = "l" -> Signed32(bs)
      [] c = "f" -> Float32(bs)

\* the layout of FORMAT, worked out once: the size and the offset of each
\* item and the size of a packet
ItemSize == [k \in DOMAIN FORMAT |-> SizeOf(FORMAT[k])]
ItemOffset == [k \in DOMAIN FORMAT |-> OffsetOf(FORMAT, k)]
PacketSize == calcsize(FORMAT)

\* struct.unpack("=BBHL...BBBB", buf): a tuple, or struct.error
unpack(buf) ==
    IF Len(buf) # PacketSize
    THEN [exc |-> "struct.error", val |-> <<>>]
    ELSE [exc |-> NoValue,
          val |-> [k \in DOMAIN FORMAT |->
                     UnpackItem(FORMAT[k],
                                SubSeq(buf, ItemOffset[k] + 1,
                                       ItemOffset[k] + ItemSize[k]))]]

\* the position of each declared field
FieldIndex == [f \in Range(Snolog_fields) |-> IndexOf(Snolog_fields, f)]

\* mutant: the constructor leaves the reserved byte out of the record
Snolog_noreserved(args) ==
    IF Len(args) # Len(Snolog_fields)
    THEN [exc |-> "TypeError", val |-> <<>>]
    ELSE [exc |-> NoValue,
          val |-> <<[f \in Range(Snolog_fields) \ {"reserved"} |->
                       args[FieldIndex[f]]]>>]

\* Snolog(*args): a record by field name, or TypeError
Snolog(args) ==
    IF Len(args) # Len(Snolog_fields)
    THEN [exc |-> "TypeError", val |-> <<>>]
    ELSE [exc |-> NoValue,
          val |-> <<[f \in Range(Snolog_fields) |-> args[FieldIndex[f]]]>>]

\* mutant: unpack_from semantics, which accept a buffer longer than the format
parse_raw_snolog_prefix(raw) ==
    LET n == IF Len(raw) < PacketSize THEN Len(raw) ELSE PacketSize
        unpacked == unpack(SubSeq(raw, 1, n))
    IN IF unpacked.exc # NoValue THEN unpacked ELSE Snolog(unpacked.val)

\* mutant: the last byte is verified as the sum of the four header bytes
\* modulo 256
parse_raw_snolog_checked(raw) ==
    LET unpacked == unpack(raw)
    IN IF unpacked.exc # NoValue THEN unpacked
       ELSE IF raw[Len(raw)] # (raw[1] + raw[2] + raw[3] + raw[4]) % 256
            THEN [exc |-> "ValueError", val |-> <<>>]
            ELSE Snolog(unpacked.val)

\* parse_raw_snolog(raw_bytes): [exc, val] with val = <<the Snolog>> on success
parse_raw_snolog(raw) ==
    LET unpacked == unpack(raw)
    IN IF unpacked.exc # NoValue THEN unpacked ELSE Snolog(unpacked.val)

\* attribute access on a Snolog: snolog.<name>
HasAttr(rec, name) == name \in DOMAIN rec

---------------------------------------------------------------------------
(* Inputs of the decoders.                                                 *)

Patterns == {"zero", "ff", "index", "mixed"}

\* the i-th byte (1-based) of a test buffer
FillByte(pat, i) ==
    CASE pat = "zero" -> 0
      [] pat = "ff" -> 255
      [] pat = "index" -> (i - 1) % 256
      [] pat = "mixed" -> ((i - 1) * 37 + 11) % 256

Buf(n, pat) == [i \in 1..n |-> FillByte(pat, i)]

ByteOrders == {"little", "big"}

---------------------------------------------------------------------------
(* The parts of the state a specification does not exercise.               *)

FlagsIdle ==
    /\ fpc = "idle"
    /\ health_flags_high = 0
    /\ health_flags_low = 0
    /\ live_health = <<>>
    /\ warned = <<>>

DecodeIdle ==
    /\ dpc = "idle"
    /\ raw_bytes = <<>>
    /\ parsed = <<>>

AsciiIdle ==
    /\ lines = <<>>
    /\ csv_string = <<>>
    /\ data = <<>>

AugIdle ==
    /\ gpc = "idle"
    /\ aug_input = [kind |-> "none", hi |-> 0, lo |-> 0, rows |-> 0]
    /\ aug_file = [header |-> <<>>, rows |-> <<>>]
    /\ aug_rows = <<>>
    /\ aug_failure = NoValue

HexIdle ==
    /\ hpc = "idle"
    /\ hex_file = <<>>
    /\ hex_pos = 0
    /\ snolog_entries = <<>>
    /\ hex_csv = [exists |-> FALSE, rows |-> <<>>]

AcqIdle ==
    /\ prog = "none"
    /\ measurement_interval = 0
    /\ read_delay = 0
    /\ interrupted = FALSE
    /\ sigint_count = 0
    /\ sigint_output = <<>>
    /\ proc = "none"
    /\ wpc = "none"
    /\ mpc = "none"
    /\ now = 0
    /\ t_start = 0
    /\ raw_snolog = <<>>
    /\ snolog = <<>>
    /\ health_flags = <<>>
    /\ port = [open |-> FALSE, closes |-> 0, written |-> 0]
    /\ csv_file = [exists |-> FALSE, rows |-> <<>>]
    /\ earlier_rows = <<>>
    /\ queue = <<>>
    /\ timestamp = <<>>
    /\ plotted = <<>>
    /\ output = <<>>
    /\ failure = NoValue
    /\ cycles = 0
    /\ last_period = <<>>
    /\ cost = 0
    /\ stopped_at = <<>>

---------------------------------------------------------------------------
(* FlagsSpec: parse_flags then check_flags on every pair of bytes.         *)

FlagsInit ==
    /\ fpc = "input"
    /\ health_flags_high \in Byte
    /\ health_flags_low \in Byte
    /\ live_health = <<>>
    /\ warned = <<>>
    /\ byteorder = "little"
    /\ snan_quieted = TRUE
    /\ DecodeIdle
    /\ HexIdle
    /\ AugIdle
    /\ AsciiIdle
    /\ AcqIdle

ParseFlags ==
    /\ fpc = "input"
    /\ live_health' = <<parse_flags(health_flags_high, health_flags_low)>>
    /\ fpc' = "parsed"
    /\ UNCHANGED <<health_flags_high, health_flags_low, warned>>
    /\ UNCHANGED <<decodeVars, hexVars, augVars, asciiVars, hostVars, acqVars>>

CheckFlags ==
    /\ fpc = "parsed"
    /\ warned' = check_flags(live_health[1])
    /\ fpc' = "checked"
    /\ UNCHANGED <<health_flags_high, health_flags_low, live_health>>
    /\ UNCHANGED <<decodeVars, hexVars, augVars, asciiVars, hostVars, acqVars>>

FlagsNext == ParseFlags \/ CheckFlags

FlagsSpec == FlagsInit /\ [][FlagsNext]_vars

---------------------------------------------------------------------------
(* DecodeSpec: parse_raw_snolog on buffers of every length up to MaxBufLen. *)

DecodeInit ==
    /\ dpc = "input"
    /\ raw_bytes \in {Buf(n, pat) : n \in 0..MaxBufLen, pat \in Patterns}
    /\ parsed = <<>>
    /\ byteorder \in ByteOrders
    /\ snan_quieted \in BOOLEAN
    /\ FlagsIdle
    /\ HexIdle
    /\ AugIdle
    /\ AsciiIdle
    /\ AcqIdle

ParseRawSnolog ==
    /\ dpc = "input"
    /\ parsed' = <<parse_raw_snolog(raw_bytes)>>
    /\ dpc' = "parsed"
    /\ UNCHANGED raw_bytes
    /\ UNCHANGED <<flagVars, hexVars, augVars, asciiVars, hostVars, acqVars>>

DecodeNext == ParseRawSnolog

DecodeSpec == DecodeInit /\ [][DecodeNext]_vars

---------------------------------------------------------------------------
(* HexSpec: parse_hex_file on files of every length up to MaxHexLen.       *)

\* SNOLOG_SIZE = 128
SNOLOG_SIZE == 128

\* mutant: every read loses the byte at the read position
file_read_skip(file, pos, size) ==
    SubSeq(file, pos + 2,
           IF pos + 1 + size > Len(file) THEN Len(file) ELSE pos + 1 + size)

\* hex_file.read(size) at position pos: size bytes, or what is left of the file
file_read(file, pos, size) ==
    SubSeq(file, pos + 1,
           IF pos + size > Len(file) THEN Len(file) ELSE pos + size)

\* csv.writer.writerow(snolog): the fields of the tuple in declaration order
writerow(rec) == [i \in DOMAIN Snolog_fields |-> rec[Snolog_fields[i]]]

HexInit ==
    /\ hpc = "reading"
    /\ hex_file \in {Buf(n, pat) : n \in 0..MaxHexLen, pat \in Patterns}
    /\ hex_pos = 0
    /\ snolog_entries = <<>>
    /\ hex_csv = [exists |-> FALSE, rows |-> <<>>]
    /\ byteorder = "little"
    /\ snan_quieted = TRUE
    /\ FlagsIdle
    /\ DecodeIdle
    /\ AugIdle
    /\ AsciiIdle
    /\ AcqIdle

\* parse_hex_file, one pass of `while not is_eof_reached`: read a chunk; a full
\* chunk is parsed and kept, anything shorter ends the loop
HexReadChunk ==
    /\ hpc = "reading"
    /\ LET chunk == file_read(hex_file, hex_pos, SNOLOG_SIZE)
       IN /\ hex_pos' = hex_pos + Len(chunk)
          /\ IF Len(chunk) = SNOLOG_SIZE
             THEN LET r == parse_raw_snolog(chunk)
                  IN IF r.exc # NoValue
                     THEN /\ hpc' = "failed"
                          /\ UNCHANGED snolog_entries
                     ELSE /\ snolog_entries' = Append(snolog_entries, r.val[1])
                          /\ UNCHANGED hpc
             ELSE /\ hpc' = "writing"
                  /\ UNCHANGED snolog_entries
    /\ UNCHANGED <<hex_file, hex_csv>>
    /\ UNCHANGED <<flagVars, decodeVars, augVars, asciiVars, hostVars, acqVars>>

\* parse_hex_file: open(csv_filename, "w"), the header, one row per entry
HexWriteCsv ==
    /\ hpc = "writing"
    /\ hex_csv' = [exists |-> TRUE,
                   rows |-> <<Snolog_fields>>
                            \o [k \in DOMAIN snolog_entries |->
                                   writerow(snolog_entries[k])]]
    /\ hpc' = "done"
    /\ UNCHANGED <<hex_file, hex_pos, snolog_entries>>
    /\ UNCHANGED <<flagVars, decodeVars, augVars, asciiVars, hostVars, acqVars>>

HexNext == HexReadChunk \/ HexWriteCsv

HexSpec == HexInit /\ [][HexNext]_vars

---------------------------------------------------------------------------
(* add_health_flags_to_csv.py                                              *)

\* the most rows a csv file under test holds
MaxAugRows == 2

Digits == <<"0", "1", "2", "3", "4", "5", "6", "7", "8", "9",
            "a", "b", "c", "d", "e", "f">>

\* the digits of n >= 0 in a base, most significant first
RECURSIVE ToDigits(_, _)
ToDigits(n, base) ==
    IF n < base
    THEN <<Digits[n + 1]>>
    ELSE ToDigits(n \div base, base) \o <<Digits[(n % base) + 1]>>

\* str(n) of an integer: a text is a sequence of characters
str(n) == IF n < 0 THEN <<"-">> \o ToDigits(-n, 10) ELSE ToDigits(n, 10)

\* the text of a 16-bit value in a mobile-app log: four hexadecimal digits
hex4(n) ==
    <<Digits[(n \div 4096) + 1], Digits[((n \div 256) % 16) + 1],
      Digits[((n \div 16) % 16) + 1], Digits[(n % 16) + 1]>>

RECURSIVE FromDigits(_, _)
FromDigits(text, base) ==
    IF text = <<>>
    THEN 0
    ELSE FromDigits(SubSeq(text, 1, Len(text) - 1), base) * base
             + (IndexOf(Digits, text[Len(text)]) - 1)

\* int(text, base) of a well-formed text
int(text, base) ==
    IF text[1] = "-"
    THEN 0 - FromDigits(Tail(text), base)
    ELSE FromDigits(text, base)

\* what csv.DictWriter writes for a cell: the bool of a flag column as
\* str(bool), the text of any other column as it is
CellText(f, v) ==
    IF f \in Range(SnodarLiveHealthFlags_fields)
    THEN (IF v THEN "True" ELSE "False")
    ELSE v

\* the text the binary logger's csv.writer puts in a cell. Integers of up to
\* 16 bits and signed longs are written digit by digit; an unsigned long and
\* a float are carried as a token of their parts, which the utility neither
\* reads nor changes.
SnologCellText(c, v) ==
    CASE c \in {"B", "H", "b", "h", "l"} -> str(v)
      [] c = "L" -> <<"L">> \o str(v.hi) \o <<":">> \o str(v.lo)
      [] c = "f" -> <<"f">> \o str(v.sign) \o <<":">> \o str(v.exponent)
                        \o <<":">> \o str(v.fraction)

\* the packets behind the rows of a log of the binary logger, in order
ToolkitPatterns == <<"index", "ff", "mixed", "zero">>

\* row i of a log written by create_snolog_csv and append_snolog_to_csv, as
\* csv.DictReader returns it: a text by column name
ToolkitRow(i) ==
    LET rec == parse_raw_snolog(Buf(SNOLOG_SIZE, ToolkitPatterns[i])).val[1]
    IN [f \in Range(Snolog_fields) |-> SnologCellText(FORMAT[FieldIndex[f]], rec[f])]

\* the flag bytes of row i of a file made from the bytes hi and lo
RowHi(in, i) == in.hi
RowLo(in, i) == (in.lo + i - 1) % 256

\* the csv file DictReader sees, by where it came from
AugFile(in) ==
    CASE in.kind = "toolkit" ->
           [header |-> Snolog_fields,
            rows |-> [i \in 1..in.rows |-> ToolkitRow(i)]]
      [] in.kind = "pair" ->
           [header |-> <<"health_flags_lo", "health_flags_hi">>,
            rows |-> [i \in 1..in.rows |->
                        [f \in {"health_flags_lo", "health_flags_hi"} |->
                            IF f = "health_flags_hi"
                            THEN str(RowHi(in, i)) ELSE str(RowLo(in, i))]]]
      [] in.kind = "mobile" ->
           [header |-> <<"LIVE_HEALTH_FLAGS">>,
            rows |-> [i \in 1..in.rows |->
                        [f \in {"LIVE_HEALTH_FLAGS"} |->
                            hex4(RowHi(in, i) * 256 + RowLo(in, i))]]]
      [] in.kind = "other" ->
           [header |-> <<"unix_time">>,
            rows |-> [i \in 1..in.rows |-> [f \in {"unix_time"} |-> str(i)]]]

AugInputs ==
    [kind : {"toolkit", "other"}, hi : {0}, lo : {0}, rows : 0..MaxAugRows]
    \cup [kind : {"pair"}, hi : {0, 21, 255}, lo : {0, 170, 255},
          rows : 0..MaxAugRows]
    \cup [kind : {"mobile"}, hi : Byte, lo : Byte, rows : {1}]

\* mutant: the high byte is masked but not shifted down
high_byte_unshifted(text) == BitAnd(int(text, 16), 65280)

\* (int(row["LIVE_HEALTH_FLAGS"], 16) & 0xff00) >> 8
high_byte(text) == Shr(BitAnd(int(text, 16), 65280), 8)

\* int(row["LIVE_HEALTH_FLAGS"], 16) & 0xff
low_byte(text) == BitAnd(int(text, 16), 255)

\* the flags of one row: the branch taken by the row's keys
RowHealthFlags(row) ==
    IF "health_flags_hi" \in DOMAIN row
    THEN parse_flags(int(row["health_flags_hi"], 10),
                     int(row["health_flags_lo"], 10))
    ELSE parse_flags(high_byte(row["LIVE_HEALTH_FLAGS"]),
                     low_byte(row["LIVE_HEALTH_FLAGS"]))

HasHealthFlags(row) ==
    "health_flags_hi" \in DOMAIN row \/ "LIVE_HEALTH_FLAGS" \in DOMAIN row

\* row[flag] = health_flags[i] for every flag: the row with the flags added
WithFlags(row) ==
    LET health_flags_of_row == RowHealthFlags(row)
    IN [f \in DOMAIN row \cup Range(SnodarLiveHealthFlags_fields) |->
          IF f \in Range(SnodarLiveHealthFlags_fields)
          THEN health_flags_of_row[f]
          ELSE row[f]]

AugInit ==
    /\ byteorder = "little"
    /\ snan_quieted = TRUE
    /\ aug_input \in AugInputs
    /\ aug_file = AugFile(aug_input)
    /\ gpc = "start"
    /\ aug_rows = <<>>
    /\ aug_failure = NoValue
    /\ FlagsIdle
    /\ DecodeIdle
    /\ HexIdle
    /\ AsciiIdle
    /\ AcqIdle

\* rows = list(reader), then the loop over the rows: the first row without a
\* flags column raises
AugParseRows ==
    /\ gpc = "start"
    /\ IF \A i \in DOMAIN aug_file.rows : HasHealthFlags(aug_file.rows[i])
       THEN /\ aug_rows' = [i \in DOMAIN aug_file.rows |->
                               WithFlags(aug_file.rows[i])]
            /\ gpc' = "parsed"
            /\ UNCHANGED aug_failure
       ELSE /\ aug_rows' = aug_file.rows
            /\ gpc' = "failed"
            /\ aug_failure' = "RuntimeError"
    /\ UNCHANGED <<aug_input, aug_file>>
    /\ UNCHANGED <<flagVars, decodeVars, hexVars, asciiVars, hostVars, acqVars>>

\* seek(0), then the header from the keys of the first row and every row
\* written over the file
AugWriteBack ==
    /\ gpc = "parsed"
    /\ IF aug_rows = <<>>
       THEN /\ gpc' = "failed"
            /\ aug_failure' = "IndexError"
            /\ UNCHANGED aug_file
       ELSE /\ gpc' = "done"
            /\ aug_file' =
                 [header |-> aug_file.header \o SnodarLiveHealthFlags_fields,
                  rows |-> [i \in DOMAIN aug_rows |->
                              [f \in DOMAIN aug_rows[i] |->
                                  CellText(f, aug_rows[i][f])]]]
            /\ UNCHANGED aug_failure
    /\ UNCHANGED <<aug_input, aug_rows>>
    /\ UNCHANGED <<flagVars, decodeVars, hexVars, asciiVars, hostVars, acqVars>>

AugNext == AugParseRows \/ AugWriteBack

AugSpec == AugInit /\ [][AugNext]_vars

---------------------------------------------------------------------------
(* manual_data_capture.py and rs232_data_capture.py                        *)
(*                                                                         *)
(* The two programs share sigint_handler, trigger_lidar_conversion,        *)
(* read_snolog and main; their lidar_control differ in the health audit    *)
(* (manual only) and in the Pace step. prog says which one runs. What the  *)
(* worker prints of the record itself (verbose) changes no state and is    *)
(* left out of output.                                                     *)

Programs == {"manual", "rs232"}

\* NUS_USA = "!USA\r".encode("utf-8"), as bytes
NUS_USA == <<33, 85, 83, 65, 13>>

\* what serial_port.write may report: all of the command, or one byte less
WriteResults == {Len(NUS_USA), Len(NUS_USA) - 1}

\* mutant: the port has a read timeout, so a read may return the bytes received
\* so far
DevicePackets_timeout ==
    {Buf(128, pat) : pat \in {"index", "ff"}} \cup {Buf(100, "index")}

\* the packets the device answers with
DevicePackets == {Buf(128, pat) : pat \in {"index", "ff"}}

\* Queue(maxsize=2)
QueueMaxSize == 2

Running == proc = "running"

\* create_snolog_csv(filename): open(filename, "w") and the header row
create_snolog_csv(file) == [exists |-> TRUE, rows |-> <<Snolog_fields>>]

\* mutant: the file is opened with "w", so the row replaces the earlier ones
append_snolog_to_csv_truncating(file, rec) ==
    [exists |-> TRUE, rows |-> <<Snolog_fields, writerow(rec)>>]

\* append_snolog_to_csv(filename, snolog): open(filename, "a") and one row
append_snolog_to_csv(file, rec) ==
    [exists |-> TRUE, rows |-> Append(file.rows, writerow(rec))]

\* the csv log may not exist when the program starts, or it may hold the
\* header and a row that an earlier run of the program wrote
Init ==
    /\ prog \in Programs
    /\ measurement_interval \in 0..MaxInterval
    /\ read_delay \in 0..MaxDelay
    /\ byteorder = "little"
    /\ snan_quieted = TRUE
    /\ earlier_rows \in
           {<<>>,
            append_snolog_to_csv(create_snolog_csv([exists |-> FALSE, rows |-> <<>>]),
                                 parse_raw_snolog(Buf(128, "zero")).val[1]).rows}
    /\ csv_file = [exists |-> earlier_rows # <<>>, rows |-> earlier_rows]
    /\ interrupted = FALSE
    /\ sigint_count = 0
    /\ sigint_output = <<>>
    /\ proc = "running"
    /\ wpc = "start"
    /\ mpc = "plot"
    /\ now = 0
    /\ t_start = 0
    /\ raw_snolog = <<>>
    /\ snolog = <<>>
    /\ health_flags = <<>>
    /\ port = [open |-> FALSE, closes |-> 0, written |-> 0]
    /\ queue = <<>>
    /\ timestamp = <<>>
    /\ plotted = <<>>
    /\ output = <<>>
    /\ failure = NoValue
    /\ cycles = 0
    /\ last_period = <<>>
    /\ cost = 0
    /\ stopped_at = <<>>
    /\ FlagsIdle
    /\ DecodeIdle
    /\ HexIdle
    /\ AugIdle
    /\ AsciiIdle

\* mutant: every SIGINT flips the flag
SigInt_toggle ==
    /\ Running
    /\ interrupted' = ~interrupted
    /\ sigint_count' = sigint_count + 1
    /\ sigint_output' =
           IF sigint_count + 1 = 1
           THEN sigint_output \o <<"\nTerminating. Waiting to collect last data packet...",
                                   "Send SIGINT again to terminate immediately">>
           ELSE sigint_output
    /\ stopped_at' = IF interrupted THEN stopped_at
                     ELSE <<[in_delay |-> wpc = "delay", cycles |-> cycles]>>
    /\ IF sigint_count + 1 = 1
       THEN UNCHANGED <<proc, workerVars, mainVars, queue>>
       ELSE /\ proc' = "killed"
            /\ wpc' = "killed"
            /\ mpc' = "killed"
            /\ now' = 0
            /\ t_start' = 0
            /\ raw_snolog' = <<>>
            /\ snolog' = <<>>
            /\ health_flags' = <<>>
            /\ queue' = <<>>
            /\ timestamp' = <<>>
            /\ plotted' = <<>>
            /\ failure' = NoValue
            /\ last_period' = <<>>
            /\ cost' = 0
            /\ UNCHANGED <<port, csv_file, output, cycles>>
    /\ UNCHANGED <<flagVars, decodeVars, hexVars, augVars, asciiVars, hostVars, argVars>>

\* mutant: the second SIGINT ends the process through a cleanup that closes the
\* serial port
SigInt_cleanup ==
    /\ Running
    /\ interrupted' = TRUE
    /\ sigint_count' = sigint_count + 1
    /\ sigint_output' =
           IF sigint_count + 1 = 1
           THEN sigint_output \o <<"\nTerminating. Waiting to collect last data packet...",
                                   "Send SIGINT again to terminate immediately">>
           ELSE sigint_output
    /\ stopped_at' = IF interrupted THEN stopped_at
                     ELSE <<[in_delay |-> wpc = "delay", cycles |-> cycles]>>
    /\ IF sigint_count + 1 = 1
       THEN UNCHANGED <<proc, workerVars, mainVars, queue>>
       ELSE /\ proc' = "killed"
            /\ wpc' = "killed"
            /\ mpc' = "killed"
            /\ now' = 0
            /\ t_start' = 0
            /\ raw_snolog' = <<>>
            /\ snolog' = <<>>
            /\ health_flags' = <<>>
            /\ queue' = <<>>
            /\ timestamp' = <<>>
            /\ plotted' = <<>>
            /\ failure' = NoValue
            /\ last_period' = <<>>
            /\ cost' = 0
            /\ port' = [port EXCEPT !.open = FALSE, !.closes = port.closes + 1]
            /\ UNCHANGED <<csv_file, output, cycles>>
    /\ UNCHANGED <<flagVars, decodeVars, hexVars, augVars, asciiVars, hostVars, argVars>>

\* sigint_handler(sig, frame): the first SIGINT sets the flag and prints; a later
\* one calls os._exit(1), which ends the process at once: its threads and their
\* memory (locals, the queue, the figure) are gone, the serial port's close()
\* was not called, and what was written to the csv file stays
SigInt ==
    /\ Running
    /\ interrupted' = TRUE
    /\ sigint_count' = sigint_count + 1
    /\ sigint_output' =
           IF sigint_count + 1 = 1
           THEN sigint_output \o <<"\nTerminating. Waiting to collect last data packet...",
                                   "Send SIGINT again to terminate immediately">>
           ELSE sigint_output
    /\ stopped_at' = IF interrupted THEN stopped_at
                     ELSE <<[in_delay |-> wpc = "delay", cycles |-> cycles]>>
    /\ IF sigint_count + 1 = 1
       THEN UNCHANGED <<proc, workerVars, mainVars, queue>>
       ELSE /\ proc' = "killed"
            /\ wpc' = "killed"
            /\ mpc' = "killed"
            /\ now' = 0
            /\ t_start' = 0
            /\ raw_snolog' = <<>>
            /\ snolog' = <<>>
            /\ health_flags' = <<>>
            /\ queue' = <<>>
            /\ timestamp' = <<>>
            /\ plotted' = <<>>
            /\ failure' = NoValue
            /\ last_period' = <<>>
            /\ cost' = 0
            /\ UNCHANGED <<port, csv_file, output, cycles>>
    /\ UNCHANGED <<flagVars, decodeVars, hexVars, augVars, asciiVars, hostVars, argVars>>

\* lidar_control: serial.Serial(port=..., baudrate=19200); create_snolog_csv(...)
WorkerStart ==
    /\ Running
    /\ wpc = "start"
    /\ port' = [open |-> TRUE, closes |-> 0, written |-> 0]
    /\ csv_file' = create_snolog_csv(csv_file)
    /\ wpc' = "loop"
    /\ UNCHANGED <<now, t_start, raw_snolog, snolog, health_flags, output,
                   failure, cycles, last_period, cost>>
    /\ UNCHANGED <<flagVars, decodeVars, hexVars, augVars, asciiVars, hostVars, argVars, sigVars, mainVars, queue>>

\* lidar_control: while not interrupted
WorkerLoopTest ==
    /\ Running
    /\ wpc = "loop"
    /\ interrupted \/ cycles < MaxCycles
    /\ wpc' = IF interrupted THEN "close" ELSE "trigger"
    /\ UNCHANGED <<now, t_start, raw_snolog, snolog, health_flags, port,
                   csv_file, output, failure, cycles, last_period, cost>>
    /\ UNCHANGED <<flagVars, decodeVars, hexVars, augVars, asciiVars, hostVars, argVars, sigVars, mainVars, queue>>

\* mutant: a short write goes unreported
trigger_lidar_conversion_silent(nbytes) == <<>>

\* trigger_lidar_conversion(serial_port): what it prints for a write result
trigger_lidar_conversion(nbytes) ==
    IF nbytes # Len(NUS_USA) THEN <<"something went wrong...?">> ELSE <<>>

\* lidar_control: t_start = time() (manual); trigger_lidar_conversion(serial_port)
\* serial_port.write returns a byte count, or raises SerialException when the
\* device is gone, which nothing catches: the thread ends
WorkerTrigger ==
    /\ Running
    /\ wpc = "trigger"
    /\ \/ /\ \E nbytes \in WriteResults :
                  /\ port' = [port EXCEPT !.written = nbytes]
                  /\ output' = trigger_lidar_conversion(nbytes)
          /\ now' = 0
          /\ t_start' = IF prog = "manual" THEN now' ELSE t_start
          /\ cycles' = cycles + 1
          /\ last_period' = IF cycles = 0 THEN <<>> ELSE <<now>>
          /\ wpc' = "delay"
          /\ UNCHANGED failure
       \/ /\ failure' = "SerialException"
          /\ wpc' = "dead"
          /\ UNCHANGED <<output, now, t_start, cycles, last_period, port>>
    /\ UNCHANGED <<raw_snolog, snolog, health_flags, csv_file, cost>>
    /\ UNCHANGED <<flagVars, decodeVars, hexVars, augVars, asciiVars, hostVars, argVars, sigVars, mainVars, queue>>

\* lidar_control: sleep(read_delay)
WorkerDelay ==
    /\ Running
    /\ wpc = "delay"
    /\ now' = now + read_delay
    /\ wpc' = "read"
    /\ UNCHANGED <<t_start, raw_snolog, snolog, health_flags, port, csv_file,
                   output, failure, cycles, last_period, cost>>
    /\ UNCHANGED <<flagVars, decodeVars, hexVars, augVars, asciiVars, hostVars, argVars, sigVars, mainVars, queue>>

\* lidar_control: raw_snolog = read_snolog(serial_port), i.e. serial_port.read(128);
\* the port has no timeout, so the call returns once the device has sent 128
\* bytes, or raises SerialException when the device is gone. Each packet carries
\* a new measurement (its unix_time advances), so the device never sends the
\* same bytes twice in a row.
WorkerRead ==
    /\ Running
    /\ wpc = "read"
    /\ \/ /\ \E pkt \in DevicePackets \ {raw_snolog}, c \in 0..MaxCost :
                  /\ raw_snolog' = pkt
                  /\ cost' = c
                  /\ now' = now + c
          /\ wpc' = "decode"
          /\ UNCHANGED failure
       \/ /\ failure' = "SerialException"
          /\ wpc' = "dead"
          /\ UNCHANGED <<raw_snolog, cost, now>>
    /\ UNCHANGED <<t_start, snolog, health_flags, port, csv_file, output,
                   cycles, last_period>>
    /\ UNCHANGED <<flagVars, decodeVars, hexVars, augVars, asciiVars, hostVars, argVars, sigVars, mainVars, queue>>

\* mutant: the manual loop runs the health audit right after the decode
WorkerDecode_then_audit ==
    /\ Running
    /\ wpc = "decode"
    /\ LET r == parse_raw_snolog(raw_snolog)
       IN IF r.exc # NoValue
          THEN /\ failure' = r.exc
               /\ wpc' = "dead"
               /\ UNCHANGED snolog
          ELSE /\ snolog' = r.val
               /\ wpc' = IF prog = "manual" THEN "health" ELSE "append"
               /\ UNCHANGED failure
    /\ UNCHANGED <<now, t_start, raw_snolog, health_flags, port, csv_file,
                   output, cycles, last_period, cost>>
    /\ UNCHANGED <<flagVars, decodeVars, hexVars, augVars, asciiVars, hostVars, argVars, sigVars, mainVars, queue>>

\* lidar_control: snolog = parse_raw_snolog(raw_snolog)
WorkerDecode ==
    /\ Running
    /\ wpc = "decode"
    /\ LET r == parse_raw_snolog(raw_snolog)
       IN IF r.exc # NoValue
          THEN /\ failure' = r.exc
               /\ wpc' = "dead"
               /\ UNCHANGED snolog
          ELSE /\ snolog' = r.val
               /\ wpc' = "append"
               /\ UNCHANGED failure
    /\ UNCHANGED <<now, t_start, raw_snolog, health_flags, port, csv_file,
                   output, cycles, last_period, cost>>
    /\ UNCHANGED <<flagVars, decodeVars, hexVars, augVars, asciiVars, hostVars, argVars, sigVars, mainVars, queue>>

\* lidar_control: append_snolog_to_csv(csv_filename, snolog)
WorkerAppend ==
    /\ Running
    /\ wpc = "append"
    /\ csv_file' = append_snolog_to_csv(csv_file, snolog[1])
    /\ wpc' = IF prog = "manual" THEN "health" ELSE "put_time"
    /\ UNCHANGED <<now, t_start, raw_snolog, snolog, health_flags, port,
                   output, failure, cycles, last_period, cost>>
    /\ UNCHANGED <<flagVars, decodeVars, hexVars, augVars, asciiVars, hostVars, argVars, sigVars, mainVars, queue>>

\* manual lidar_control: health_flags = snodar_live_health.parse_flags(
\*     snolog.health_flags_hi, snolog.health_flags_lo);
\* snodar_live_health.check_flags(health_flags).
\* Reading an attribute the Snolog tuple does not have raises AttributeError,
\* which nothing catches: the thread ends.
WorkerHealthAudit ==
    /\ Running
    /\ wpc = "health"
    /\ IF HasAttr(snolog[1], "health_flags_hi") /\ HasAttr(snolog[1], "health_flags_lo")
       THEN /\ health_flags' = <<parse_flags(snolog[1]["health_flags_hi"],
                                             snolog[1]["health_flags_lo"])>>
            /\ output' = output \o check_flags(health_flags'[1])
            /\ wpc' = "put_time"
            /\ UNCHANGED failure
       ELSE /\ failure' = "AttributeError"
            /\ wpc' = "dead"
            /\ UNCHANGED <<health_flags, output>>
    /\ UNCHANGED <<now, t_start, raw_snolog, snolog, port, csv_file, cycles,
                   last_period, cost>>
    /\ UNCHANGED <<flagVars, decodeVars, hexVars, augVars, asciiVars, hostVars, argVars, sigVars, mainVars, queue>>

\* mutant: the queue has no maxsize, so put never blocks
WorkerPutTime_unbounded ==
    /\ Running
    /\ wpc = "put_time"
    /\ queue' = Append(queue, snolog[1]["unix_time"])
    /\ wpc' = "put_dist"
    /\ UNCHANGED <<now, t_start, raw_snolog, snolog, health_flags, port,
                   csv_file, output, failure, cycles, last_period, cost>>
    /\ UNCHANGED <<flagVars, decodeVars, hexVars, augVars, asciiVars, hostVars, argVars, sigVars, mainVars>>

\* lidar_control: queue.put(snolog.unix_time), which blocks while the queue is full
WorkerPutTime ==
    /\ Running
    /\ wpc = "put_time"
    /\ Len(queue) < QueueMaxSize
    /\ queue' = Append(queue, snolog[1]["unix_time"])
    /\ wpc' = "put_dist"
    /\ UNCHANGED <<now, t_start, raw_snolog, snolog, health_flags, port,
                   csv_file, output, failure, cycles, last_period, cost>>
    /\ UNCHANGED <<flagVars, decodeVars, hexVars, augVars, asciiVars, hostVars, argVars, sigVars, mainVars>>

\* lidar_control: queue.put(snolog.lidar_tc_distance)
WorkerPutDistance ==
    /\ Running
    /\ wpc = "put_dist"
    /\ Len(queue) < QueueMaxSize
    /\ queue' = Append(queue, snolog[1]["lidar_tc_distance"])
    /\ wpc' = "pace"
    /\ UNCHANGED <<now, t_start, raw_snolog, snolog, health_flags, port,
                   csv_file, output, failure, cycles, last_period, cost>>
    /\ UNCHANGED <<flagVars, decodeVars, hexVars, augVars, asciiVars, hostVars, argVars, sigVars, mainVars>>

\* manual lidar_control: sleep_time = measurement_interval - read_delay - elapsed_time
\* with elapsed_time = t_end - t_start
sleep_time(interval, delay, t_end, t_begin) == interval - delay - (t_end - t_begin)

\* lidar_control, the end of a cycle.
\*   manual: if sleep_time > 0: sleep(sleep_time)
\*   rs232 : sleep(measurement_interval - read_delay); time.sleep raises
\*           ValueError for a negative length
WorkerPace ==
    /\ Running
    /\ wpc = "pace"
    /\ IF prog = "manual"
       THEN LET st == sleep_time(measurement_interval, read_delay, now, t_start)
            IN /\ now' = IF st > 0 THEN now + st ELSE now
               /\ wpc' = "loop"
               /\ UNCHANGED failure
       ELSE IF measurement_interval - read_delay < 0
            THEN /\ failure' = "ValueError"
                 /\ wpc' = "dead"
                 /\ UNCHANGED now
            ELSE /\ now' = now + (measurement_interval - read_delay)
                 /\ wpc' = "loop"
                 /\ UNCHANGED failure
    /\ UNCHANGED <<t_start, raw_snolog, snolog, health_flags, port, csv_file,
                   output, cycles, last_period, cost>>
    /\ UNCHANGED <<flagVars, decodeVars, hexVars, augVars, asciiVars, hostVars, argVars, sigVars, mainVars, queue>>

\* lidar_control: serial_port.close()
WorkerClose ==
    /\ Running
    /\ wpc = "close"
    /\ port' = [port EXCEPT !.open = FALSE, !.closes = port.closes + 1]
    /\ wpc' = "done"
    /\ UNCHANGED <<now, t_start, raw_snolog, snolog, health_flags, csv_file,
                   output, failure, cycles, last_period, cost>>
    /\ UNCHANGED <<flagVars, decodeVars, hexVars, augVars, asciiVars, hostVars, argVars, sigVars, mainVars, queue>>

\* main: fetch_data, run by the animation timer while main is in plt.pause:
\* if queue.full(): timestamp = queue.get()
FetchTimestamp ==
    /\ Running
    /\ mpc = "plot"
    /\ Len(queue) = QueueMaxSize
    /\ timestamp' = <<Head(queue)>>
    /\ queue' = Tail(queue)
    /\ mpc' = "fetch"
    /\ UNCHANGED plotted
    /\ UNCHANGED <<flagVars, decodeVars, hexVars, augVars, asciiVars, hostVars, argVars, sigVars, workerVars>>

\* mutant: the second get takes the newest item of the queue
FetchDistance_lifo ==
    /\ Running
    /\ mpc = "fetch"
    /\ queue # <<>>
    /\ plotted' = Append(plotted, <<timestamp[1], queue[Len(queue)]>>)
    /\ queue' = SubSeq(queue, 1, Len(queue) - 1)
    /\ mpc' = "plot"
    /\ UNCHANGED timestamp
    /\ UNCHANGED <<flagVars, decodeVars, hexVars, augVars, asciiVars, hostVars, argVars, sigVars, workerVars>>

\* main: fetch_data: distance = queue.get(); yield timestamp, distance
FetchDistance ==
    /\ Running
    /\ mpc = "fetch"
    /\ queue # <<>>
    /\ plotted' = Append(plotted, <<timestamp[1], Head(queue)>>)
    /\ queue' = Tail(queue)
    /\ mpc' = "plot"
    /\ UNCHANGED timestamp
    /\ UNCHANGED <<flagVars, decodeVars, hexVars, augVars, asciiVars, hostVars, argVars, sigVars, workerVars>>

\* main stops showing the plot, after which fetch_data runs no more.
\*   manual: `while not interrupted: plt.pause(5)` ends once interrupted is set
\*   rs232 : plt.show() returns, which it does when the plot window is closed
MainLeavePlot ==
    /\ Running
    /\ mpc = "plot"
    /\ prog = "manual" => interrupted
    /\ mpc' = "join"
    /\ UNCHANGED <<timestamp, plotted>>
    /\ UNCHANGED <<flagVars, decodeVars, hexVars, augVars, asciiVars, hostVars, argVars, sigVars, workerVars, queue>>

\* main: lidar_control_thread.join() returns once the thread has ended; sys.exit(0)
MainJoin ==
    /\ Running
    /\ mpc = "join"
    /\ wpc \in {"done", "dead"}
    /\ mpc' = "exited"
    /\ proc' = "exited"
    /\ UNCHANGED <<timestamp, plotted>>
    /\ UNCHANGED <<interrupted, sigint_count, sigint_output, stopped_at>>
    /\ UNCHANGED <<flagVars, decodeVars, hexVars, augVars, asciiVars, hostVars, argVars, workerVars, queue>>

Next ==
    \/ SigInt
    \/ WorkerStart
    \/ WorkerLoopTest
    \/ WorkerTrigger
    \/ WorkerDelay
    \/ WorkerRead
    \/ WorkerDecode
    \/ WorkerAppend
    \/ WorkerHealthAudit
    \/ WorkerPutTime
    \/ WorkerPutDistance
    \/ WorkerPace
    \/ WorkerClose
    \/ FetchTimestamp
    \/ FetchDistance
    \/ MainLeavePlot
    \/ MainJoin

Spec == Init /\ [][Next]_vars

---------------------------------------------------------------------------
(* rs232_ascii_data_logger.py                                              *)

\* the most lines the device sends in a session
MaxLines == 3

FIELDNAMES ==
    << "Time", "Current (mA)", "Voltage (V)", "NRF Temperature",
       "PCB Temperature", "IMU Temperature", "IMU Roll", "IMU Pitch",
       "IMU Yaw", "IMU Flag", "Lidar SoC Temperature",
       "Lidar PCB Temperature", "Lidar Distance", "Heater Enabled",
       "Outside Temperature", "Seasonal Snow Depth", "Seasonal Snow Fall",
       "New Snow Fall", "DoY SWE", "Temp SWE" >>

\* A float is kept as its number of tenths: the device sends numbers with at
\* most one decimal.

\* str(x) of a float: the integer part, a point, one decimal
str_float(x) ==
    LET a == IF x < 0 THEN 0 - x ELSE x
    IN (IF x < 0 THEN <<"-">> ELSE <<>>)
           \o ToDigits(a \div 10, 10) \o <<".">> \o ToDigits(a % 10, 10)

Whitespace == {" ", "\t", "\r", "\n"}

\* text.strip()
strip(text) ==
    LET keep == {i \in DOMAIN text : text[i] \notin Whitespace}
    IN IF keep = {}
       THEN <<>>
       ELSE SubSeq(text, CHOOSE i \in keep : \A j \in keep : i <= j,
                         CHOOSE i \in keep : \A j \in keep : i >= j)

\* text.split(","): the pieces between the commas, empty pieces included
split(text) ==
    LET commas == {i \in DOMAIN text : text[i] = ","}
        nth(k) == IF k = 0 THEN 0
                  ELSE IF k > Cardinality(commas) THEN Len(text) + 1
                  ELSE CHOOSE i \in commas :
                           Cardinality({j \in commas : j <= i}) = k
    IN [k \in 1..(Cardinality(commas) + 1) |->
           SubSeq(text, nth(k - 1) + 1, nth(k) - 1)]

\* float(text) accepts the text: an optional sign, digits and at most one point
IsFloatText(text) ==
    LET t == strip(text)
        body == IF t # <<>> /\ t[1] = "-" THEN Tail(t) ELSE t
        points == {i \in DOMAIN body : body[i] = "."}
    IN /\ \A i \in DOMAIN body : body[i] \in Range(SubSeq(Digits, 1, 10)) \cup {"."}
       /\ Cardinality(points) <= 1
       /\ Len(body) > Cardinality(points)

\* float(text) of an accepted text with at most one decimal
float(text) ==
    LET t == strip(text)
        neg == t[1] = "-"
        body == IF neg THEN Tail(t) ELSE t
        points == {i \in DOMAIN body : body[i] = "."}
        p == IF points = {} THEN Len(body) + 1 ELSE CHOOSE i \in points : TRUE
        whole == FromDigits(SubSeq(body, 1, p - 1), 10)
        tenth == IF p < Len(body) THEN FromDigits(SubSeq(body, p + 1, p + 1), 10) ELSE 0
    IN (IF neg THEN -1 ELSE 1) * (whole * 10 + tenth)

\* [float(x) for x in csv_list]: the list, or ValueError at the first text
\* that is not a number
floats(csv_list) ==
    IF \A k \in DOMAIN csv_list : IsFloatText(csv_list[k])
    THEN [exc |-> NoValue, val |-> [k \in DOMAIN csv_list |-> float(csv_list[k])]]
    ELSE [exc |-> "ValueError", val |-> <<>>]

\* writer.writerow(data): the str of every float
datarow(d) == [k \in DOMAIN d |-> str_float(d[k])]

\* the value of field i of the k-th telemetry line, in tenths: the time, the
\* IMU flag and the heater flag are whole numbers
FieldValue(k, i) ==
    IF i = 1 THEN (100 + k) * 10
    ELSE IF i \in {10, 14} THEN (k % 2) * 10
    ELSE ((k * 7 + i * 13) % 50) - 20

\* the text the device sends for a field: whole numbers without a point
FieldText(k, i) ==
    IF i \in {1, 10, 14}
    THEN ToDigits(FieldValue(k, i) \div 10, 10)
    ELSE str_float(FieldValue(k, i))

RECURSIVE JoinFields(_, _)
JoinFields(k, n) ==
    IF n = 1 THEN FieldText(k, 1)
    ELSE JoinFields(k, n - 1) \o <<",">> \o FieldText(k, n)

\* the k-th telemetry line: 20 numbers and the line end
TelemetryLine(k) == JoinFields(k, Len(FIELDNAMES)) \o <<"\r", "\n">>

\* what readline may return as line number k of the session: the telemetry
\* line, the rest of a line whose beginning was sent before the port was
\* opened, or an empty line
DeviceLines(k) ==
    {TelemetryLine(k), <<",", "0", ".", "5", "\r", "\n">>, <<"\r", "\n">>}

asciiUnused ==
    <<measurement_interval, read_delay, earlier_rows, now, t_start, raw_snolog,
      snolog, health_flags, last_period, cost, timestamp>>

\* main has installed the handler, written the csv header (create_csv_header
\* opens the file with "w") and made the queue; the reader thread starts
AsciiInit ==
    /\ prog = "ascii"
    /\ byteorder = "little"
    /\ snan_quieted = TRUE
    /\ measurement_interval = 0
    /\ read_delay = 0
    /\ earlier_rows = <<>>
    /\ interrupted = FALSE
    /\ sigint_count = 0
    /\ sigint_output = <<>>
    /\ proc = "running"
    /\ stopped_at = <<>>
    /\ wpc = "start"
    /\ mpc = "plot"
    /\ now = 0
    /\ t_start = 0
    /\ raw_snolog = <<>>
    /\ snolog = <<>>
    /\ health_flags = <<>>
    /\ port = [open |-> FALSE, closes |-> 0, written |-> 0]
    /\ csv_file = [exists |-> TRUE, rows |-> <<FIELDNAMES>>]
    /\ queue = <<>>
    /\ timestamp = <<>>
    /\ plotted = <<>>
    /\ output = <<>>
    /\ failure = NoValue
    /\ cycles = 0
    /\ last_period = <<>>
    /\ cost = 0
    /\ lines = <<>>
    /\ csv_string = <<>>
    /\ data = <<>>
    /\ FlagsIdle
    /\ DecodeIdle
    /\ HexIdle
    /\ AugIdle

\* sigint_handler of rs232_ascii_data_logger.py: the first SIGINT sets the flag
\* and prints, a later one ends the process with os._exit(1)
AsciiSigInt ==
    /\ Running
    /\ interrupted' = TRUE
    /\ sigint_count' = sigint_count + 1
    /\ sigint_output' =
           IF sigint_count + 1 = 1
           THEN sigint_output \o <<"\nTerminating. Waiting to collect last data packet...",
                                   "Send SIGINT again to terminate immediately">>
           ELSE sigint_output
    /\ stopped_at' = IF interrupted THEN stopped_at
                     ELSE <<[in_delay |-> FALSE, cycles |-> cycles]>>
    /\ IF sigint_count + 1 = 1
       THEN UNCHANGED <<proc, wpc, mpc, queue, plotted, csv_string, data, failure>>
       ELSE /\ proc' = "killed"
            /\ wpc' = "killed"
            /\ mpc' = "killed"
            /\ queue' = <<>>
            /\ plotted' = <<>>
            /\ csv_string' = <<>>
            /\ data' = <<>>
            /\ failure' = NoValue
    /\ UNCHANGED <<lines, port, csv_file, output, cycles, prog, asciiUnused>>
    /\ UNCHANGED <<flagVars, decodeVars, hexVars, augVars, hostVars>>

\* read_rs232_data: serial.Serial(port=serial_port, baudrate=19200)
ReaderOpen ==
    /\ Running
    /\ wpc = "start"
    /\ port' = [open |-> TRUE, closes |-> 0, written |-> 0]
    /\ wpc' = "loop"
    /\ UNCHANGED <<lines, csv_string, data, csv_file, queue, plotted, output,
                   failure, cycles, mpc, prog, asciiUnused, sigVars>>
    /\ UNCHANGED <<flagVars, decodeVars, hexVars, augVars, hostVars>>

\* read_rs232_data: while not interrupted
ReaderLoopTest ==
    /\ Running
    /\ wpc = "loop"
    /\ wpc' = IF interrupted THEN "close" ELSE "readline"
    /\ UNCHANGED <<lines, csv_string, data, port, csv_file, queue, plotted,
                   output, failure, cycles, mpc, prog, asciiUnused, sigVars>>
    /\ UNCHANGED <<flagVars, decodeVars, hexVars, augVars, hostVars>>

\* read_rs232_data: raw_bytes = serial_port.readline();
\* csv_string = raw_bytes.decode(). The port has no timeout: readline returns
\* when the device has sent a line.
ReaderReadline ==
    /\ Running
    /\ wpc = "readline"
    /\ cycles < MaxLines
    /\ \E line \in DeviceLines(cycles + 1) :
           /\ csv_string' = line
           /\ lines' = Append(lines, line)
    /\ cycles' = cycles + 1
    /\ data' = <<>>
    /\ wpc' = "parse"
    /\ UNCHANGED <<port, csv_file, queue, plotted, output, failure, mpc, prog,
                   asciiUnused, sigVars>>
    /\ UNCHANGED <<flagVars, decodeVars, hexVars, augVars, hostVars>>

\* read_rs232_data: csv_list = csv_string.strip().split(",");
\* data = [float(x) for x in csv_list]; print(data).
\* A ValueError is caught nowhere: the thread ends.
ReaderParse ==
    /\ Running
    /\ wpc = "parse"
    /\ LET r == floats(split(strip(csv_string)))
       IN IF r.exc # NoValue
          THEN /\ failure' = r.exc
               /\ wpc' = "dead"
               /\ UNCHANGED <<data, output>>
          ELSE /\ data' = <<r.val>>
               /\ output' = Append(output, r.val)
               /\ wpc' = "put"
               /\ UNCHANGED failure
    /\ UNCHANGED <<lines, csv_string, port, csv_file, queue, plotted, cycles,
                   mpc, prog, asciiUnused, sigVars>>
    /\ UNCHANGED <<flagVars, decodeVars, hexVars, augVars, hostVars>>

\* read_rs232_data: queue.put(data); the queue is Queue(), without a maxsize
ReaderPut ==
    /\ Running
    /\ wpc = "put"
    /\ queue' = Append(queue, data[1])
    /\ wpc' = "append"
    /\ UNCHANGED <<lines, csv_string, data, port, csv_file, plotted, output,
                   failure, cycles, mpc, prog, asciiUnused, sigVars>>
    /\ UNCHANGED <<flagVars, decodeVars, hexVars, augVars, hostVars>>

\* read_rs232_data: append_to_csv(csv_filename, data)
ReaderAppend ==
    /\ Running
    /\ wpc = "append"
    /\ csv_file' = [csv_file EXCEPT !.rows = Append(@, datarow(data[1]))]
    /\ wpc' = "loop"
    /\ UNCHANGED <<lines, csv_string, data, port, queue, plotted, output,
                   failure, cycles, mpc, prog, asciiUnused, sigVars>>
    /\ UNCHANGED <<flagVars, decodeVars, hexVars, augVars, hostVars>>

\* read_rs232_data: serial_port.close()
ReaderClose ==
    /\ Running
    /\ wpc = "close"
    /\ port' = [port EXCEPT !.open = FALSE, !.closes = port.closes + 1]
    /\ wpc' = "done"
    /\ UNCHANGED <<lines, csv_string, data, csv_file, queue, plotted, output,
                   failure, cycles, mpc, prog, asciiUnused, sigVars>>
    /\ UNCHANGED <<flagVars, decodeVars, hexVars, augVars, hostVars>>

\* main: fetch_data, run by the animation timer during plt.show():
\* if not queue.empty(): data = queue.get(); yield data[0], data[12]
AsciiFetch ==
    /\ Running
    /\ mpc = "plot"
    /\ queue # <<>>
    /\ plotted' = Append(plotted, <<Head(queue)[1], Head(queue)[13]>>)
    /\ queue' = Tail(queue)
    /\ UNCHANGED <<lines, csv_string, data, port, csv_file, output, failure,
                   cycles, wpc, mpc, prog, asciiUnused, sigVars>>
    /\ UNCHANGED <<flagVars, decodeVars, hexVars, augVars, hostVars>>

\* main: plt.show() returns when the plot window is closed
AsciiLeavePlot ==
    /\ Running
    /\ mpc = "plot"
    /\ mpc' = "join"
    /\ UNCHANGED <<lines, csv_string, data, port, csv_file, queue, plotted,
                   output, failure, cycles, wpc, prog, asciiUnused, sigVars>>
    /\ UNCHANGED <<flagVars, decodeVars, hexVars, augVars, hostVars>>

\* main: rs232_thread.join() returns once the thread has ended; sys.exit(0)
AsciiJoin ==
    /\ Running
    /\ mpc = "join"
    /\ wpc \in {"done", "dead"}
    /\ mpc' = "exited"
    /\ proc' = "exited"
    /\ UNCHANGED <<interrupted, sigint_count, sigint_output, stopped_at>>
    /\ UNCHANGED <<lines, csv_string, data, port, csv_file, queue, plotted,
                   output, failure, cycles, wpc, prog, asciiUnused>>
    /\ UNCHANGED <<flagVars, decodeVars, hexVars, augVars, hostVars>>

AsciiNext ==
    \/ AsciiSigInt
    \/ ReaderOpen
    \/ ReaderLoopTest
    \/ ReaderReadline
    \/ ReaderParse
    \/ ReaderPut
    \/ ReaderAppend
    \/ ReaderClose
    \/ AsciiFetch
    \/ AsciiLeavePlot
    \/ AsciiJoin

AsciiSpec == AsciiInit /\ [][AsciiNext]_vars

---------------------------------------------------------------------------
(* Properties of lidar_control (Spec).                                     *)

\* completed queue.put calls: what was plotted, what main holds, what is queued
Forwarded ==
    2 * Len(plotted) + (IF mpc = "fetch" THEN 1 ELSE 0) + Len(queue)

\* rows appended to the csv log after its header
RowsAppended == IF csv_file.exists THEN Len(csv_file.rows) - 1 ELSE 0

\* C1: in manual_data_capture, with read_delay >= 0 and a per-cycle cost of at
\* most measurement_interval - read_delay, the next Trigger is written exactly
\* measurement_interval after the previous one: while no stop is requested, a
\* cycle ends with the loop back at its head measurement_interval after its
\* trigger, and the time measured between two Trigger writes is
\* measurement_interval.
C1_TriggerPeriod ==
    (prog = "manual" /\ ~interrupted /\ cycles >= 1
       /\ cost <= measurement_interval - read_delay) =>
        /\ wpc \in {"loop", "trigger", "dead"} =>
               (wpc # "dead" /\ now = measurement_interval)
        /\ (wpc \in {"delay", "read"} /\ last_period # <<>>) =>
               last_period[1] = measurement_interval

\* C2: in manual_data_capture, when the stop flag is set while the loop is in
\* the Delay step, the loop still reads, decodes, appends the record to the log
\* and forwards it to the display, writes no further Trigger, and calls close()
\* on the serial port exactly once: the worker ends only that way.
C2_StopInDelayCompletesCycle ==
    (prog = "manual" /\ sigint_count = 1 /\ stopped_at # <<>>
       /\ stopped_at[1].in_delay /\ wpc \in {"done", "dead"}) =>
        /\ wpc = "done"
        /\ port.closes = 1
        /\ cycles = stopped_at[1].cycles
        /\ RowsAppended = cycles
        /\ Forwarded = 2 * cycles

\* C3: in manual_data_capture, once a 128-byte packet is decoded and logged,
\* the loop decodes the health flags from the packet's high flag byte (offset
\* 125) and low flag byte (offset 124), issues the warnings of the unhealthy
\* fields, and then forwards unix_time and lidar_tc_distance to the display.
C3_AuditThenForward ==
    (prog = "manual" /\ snolog # <<>> /\ wpc \notin {"append", "health"}) =>
        /\ health_flags = <<parse_flags(raw_snolog[126], raw_snolog[125])>>
        /\ wpc \in {"put_time", "put_dist"} =>
               check_flags(health_flags[1])
                   = SubSeq(output, Len(output) - Len(check_flags(health_flags[1])) + 1,
                            Len(output))
        /\ wpc \in {"pace", "loop", "trigger", "close", "done"} =>
               Forwarded = 2 * cycles

---------------------------------------------------------------------------
(* Properties of parse_raw_snolog (DecodeSpec).                            *)

\* the outcome of the parse_raw_snolog call, once made
ParseDone == dpc = "parsed"
ParseOk == ParseDone /\ parsed[1].exc = NoValue
ParsedRecord == parsed[1].val[1]

\* C4: a buffer whose length is not exactly 128 makes parse_raw_snolog fail
\* with an error and yields no record at all; a buffer of exactly 128 bytes
\* yields a record in which every field of Snolog is populated.
C4_LengthDecidesOutcome ==
    ParseDone =>
        IF Len(raw_bytes) # 128
        THEN /\ parsed[1].exc = "struct.error"
             /\ parsed[1].val = <<>>
        ELSE /\ parsed[1].exc = NoValue
             /\ Len(parsed[1].val) = 1
             /\ DOMAIN ParsedRecord = Range(Snolog_fields)

C4_Witness ==
    /\ ParseDone
    /\ Len(raw_bytes) = 129
    /\ parsed[1].exc = "struct.error"
    /\ parsed[1].val = <<>>

\* C9 as claimed: the record returned for a 128-byte buffer has exactly 41
\* fields.
C9_FortyOneFields ==
    (ParseDone /\ Len(raw_bytes) = 128) =>
        (ParseOk /\ Cardinality(DOMAIN ParsedRecord) = 41)

\* C9 as amended: the record returned for a 128-byte buffer has exactly 43
\* fields, one per item of the format and one per declared field of Snolog.
C9_FortyThreeFields ==
    /\ Len(FORMAT) = 43
    /\ Len(Snolog_fields) = 43
    /\ Cardinality(Range(Snolog_fields)) = 43
    /\ (ParseDone /\ Len(raw_bytes) = 128) =>
           (ParseOk /\ Cardinality(DOMAIN ParsedRecord) = 43)

C9_Witness ==
    /\ ParseOk
    /\ Len(raw_bytes) = 128
    /\ Cardinality(DOMAIN ParsedRecord) = 43

\* the first and the last byte offset of a field, from the format
FieldFirst(name) == ItemOffset[FieldIndex[name]]
FieldLast(name) == FieldFirst(name) + ItemSize[FieldIndex[name]] - 1

\* C10: the field widths, in declaration order and without padding, sum to 128
\* bytes, and the fields sit at the offsets the layout implies: id at byte 0,
\* version at 1, length at 2..3, unix_time at 4..7, health_flags_lo at 124, the
\* high flag byte (which the code names health_flag_hi) at 125, reserved at 126
\* and checksum at 127. A buffer whose byte i holds the value i decodes to a
\* record whose one-byte fields hold their own offsets.
C10_LayoutOffsets ==
    /\ PacketSize = 128
    /\ SumSeq(ItemSize) = 128
    /\ Len(FORMAT) = Len(Snolog_fields)
    /\ FieldFirst("id") = 0 /\ FieldLast("id") = 0
    /\ FieldFirst("version") = 1 /\ FieldLast("version") = 1
    /\ FieldFirst("length") = 2 /\ FieldLast("length") = 3
    /\ FieldFirst("unix_time") = 4 /\ FieldLast("unix_time") = 7
    /\ FieldFirst("health_flags_lo") = 124 /\ FieldLast("health_flags_lo") = 124
    /\ FieldFirst("health_flag_hi") = 125 /\ FieldLast("health_flag_hi") = 125
    /\ FieldFirst("reserved") = 126 /\ FieldLast("reserved") = 126
    /\ FieldFirst("checksum") = 127 /\ FieldLast("checksum") = 127
    /\ \A k \in 1..(Len(FORMAT) - 1) :
           ItemOffset[k + 1] = ItemOffset[k] + ItemSize[k]
    /\ (ParseDone /\ raw_bytes = Buf(128, "index")) =>
           /\ ParseOk
           /\ ParsedRecord["id"] = 0
           /\ ParsedRecord["version"] = 1
           /\ ParsedRecord["length"] =
                  (IF byteorder = "little" THEN 2 + 256 * 3 ELSE 2 * 256 + 3)
           /\ ParsedRecord["unix_time"] =
                  (IF byteorder = "little"
                   THEN [hi |-> 6 + 256 * 7, lo |-> 4 + 256 * 5]
                   ELSE [hi |-> 4 * 256 + 5, lo |-> 6 * 256 + 7])
           /\ ParsedRecord["health_flags_lo"] = 124
           /\ ParsedRecord["health_flag_hi"] = 125
           /\ ParsedRecord["reserved"] = 126
           /\ ParsedRecord["checksum"] = 127

C10_Witness ==
    /\ ParseOk
    /\ raw_bytes = Buf(128, "index")
    /\ ParsedRecord["health_flags_lo"] = 124
    /\ ParsedRecord["checksum"] = 127

---------------------------------------------------------------------------
(* Properties of parse_flags and check_flags (FlagsSpec).                  *)

\* bit k of a byte, by arithmetic
BitSet(x, k) == (x \div Pow2(k)) % 2 = 1

\* a byte with bit k inverted
FlipBit(x, k) == IF BitSet(x, k) THEN x - Pow2(k) ELSE x + Pow2(k)

FlagsParsed == fpc \in {"parsed", "checked"}

\* C5: for all high, low in 0..255, each of the 13 fields of
\* parse_flags(high, low) is true exactly when its assigned bit is set.
C5_FieldsFollowBits ==
    FlagsParsed =>
        LET lh == live_health[1]
            hi == health_flags_high
            lo == health_flags_low
        IN /\ lh.rtc_read_ok = BitSet(hi, 0)
           /\ lh.rtc_time_increased = BitSet(hi, 1)
           /\ lh.lidar_count_ok = BitSet(hi, 2)
           /\ lh.lidar_time_ok = BitSet(hi, 3)
           /\ lh.lidar_registers_ok = BitSet(hi, 4)
           /\ lh.imu_ready = BitSet(lo, 0)
           /\ lh.ina_voltage_ok = BitSet(lo, 1)
           /\ lh.ina_current_ok = BitSet(lo, 2)
           /\ lh.nrf_temperature_ok = BitSet(lo, 3)
           /\ lh.tmp1075_temperature_ok = BitSet(lo, 4)
           /\ lh.lidar_pcb_temperature_ok = BitSet(lo, 5)
           /\ lh.lidar_soc_temperature_ok = BitSet(lo, 6)
           /\ lh.imu_quaternion_ok = BitSet(lo, 7)

\* high = 0, low = 1: imu_ready alone is true
C5_Witness ==
    /\ fpc = "parsed"
    /\ health_flags_high = 0
    /\ health_flags_low = 1
    /\ live_health[1].imu_ready
    /\ \A f \in Range(SnodarLiveHealthFlags_fields) \ {"imu_ready"} :
           ~live_health[1][f]

\* the bit-assignment table: the byte and the bit each field is read from
AssignedByte ==
    [f \in Range(SnodarLiveHealthFlags_fields) |->
        IF f \in {"rtc_read_ok", "rtc_time_increased", "lidar_count_ok",
                  "lidar_time_ok", "lidar_registers_ok"}
        THEN "high" ELSE "low"]

AssignedBit ==
    [f \in Range(SnodarLiveHealthFlags_fields) |->
        CASE f \in {"rtc_read_ok", "imu_ready"} -> 0
          [] f \in {"rtc_time_increased", "ina_voltage_ok"} -> 1
          [] f \in {"lidar_count_ok", "ina_current_ok"} -> 2
          [] f \in {"lidar_time_ok", "nrf_temperature_ok"} -> 3
          [] f \in {"lidar_registers_ok", "tmp1075_temperature_ok"} -> 4
          [] f = "lidar_pcb_temperature_ok" -> 5
          [] f = "lidar_soc_temperature_ok" -> 6
          [] f = "imu_quaternion_ok" -> 7]

\* parse_flags of the input with bit k of one byte inverted
FlagsWithFlip(which, k) ==
    IF which = "high"
    THEN parse_flags(FlipBit(health_flags_high, k), health_flags_low)
    ELSE parse_flags(health_flags_high, FlipBit(health_flags_low, k))

\* C6: parse_flags is total over 0..255 x 0..255 (a value for each of the 13
\* fields, each a boolean) and each field depends on exactly one input bit:
\* inverting any of the other 15 bits leaves the field unchanged (so any two
\* inputs that agree on the field's bit, which differ by a series of such
\* inversions, give it the same value), and inverting its own bit changes it.
\* Bits 5, 6 and 7 of the high byte change no field.
C6_OneBitPerField ==
    (fpc = "parsed") =>
        LET lh == live_health[1]
        IN /\ DOMAIN lh = Range(SnodarLiveHealthFlags_fields)
           /\ \A f \in DOMAIN lh : lh[f] \in BOOLEAN
           /\ \A which \in {"high", "low"}, k \in 0..7 :
                 LET other == FlagsWithFlip(which, k)
                 IN \A f \in DOMAIN lh :
                       IF AssignedByte[f] = which /\ AssignedBit[f] = k
                       THEN other[f] # lh[f]
                       ELSE other[f] = lh[f]
           /\ \A k \in 5..7 : FlagsWithFlip("high", k) = lh

\* high = 0b11100000: only unused bits are set and no field is true
C6_Witness ==
    /\ fpc = "parsed"
    /\ health_flags_high = 224
    /\ health_flags_low = 0
    /\ \A f \in Range(SnodarLiveHealthFlags_fields) : ~live_health[1][f]

\* the field a warning message of check_flags is about
FieldOfWarning(msg) ==
    CASE msg = "lidar measurement count was not ok" -> "lidar_count_ok"
      [] msg = "lidar timeout occurred!" -> "lidar_time_ok"
      [] msg = "lidar registers were not ok" -> "lidar_registers_ok"
      [] msg = "RTC read was not ok" -> "rtc_read_ok"
      [] msg = "RTC time didn't increase" -> "rtc_time_increased"
      [] msg = "INA voltage read was not ok" -> "ina_voltage_ok"
      [] msg = "INA current read was not ok" -> "ina_current_ok"
      [] msg = "nRF temperature read was not ok" -> "nrf_temperature_ok"
      [] msg = "TMP1075 temperature read was not ok" -> "tmp1075_temperature_ok"
      [] msg = "lidar pcb temperature read was not ok" -> "lidar_pcb_temperature_ok"
      [] msg = "lidar SoC temperature read was not ok" -> "lidar_soc_temperature_ok"
      [] msg = "IMU data was not ready" -> "imu_ready"
      [] msg = "IMU quaternion was not ok" -> "imu_quaternion_ok"

WarnedFields == [i \in DOMAIN warned |-> FieldOfWarning(warned[i])]

\* the fields of an order that are false in lh, in that order
Unhealthy(order, lh) == SelectSeq(order, LAMBDA f : ~lh[f])

\* the order of the rows of the bit-assignment table
TableOrder ==
    << "rtc_read_ok", "rtc_time_increased", "lidar_count_ok", "lidar_time_ok",
       "lidar_registers_ok", "imu_ready", "ina_voltage_ok", "ina_current_ok",
       "nrf_temperature_ok", "tmp1075_temperature_ok",
       "lidar_pcb_temperature_ok", "lidar_soc_temperature_ok",
       "imu_quaternion_ok" >>

\* C7 as claimed: check_flags reports the unhealthy fields in the order of the
\* bit-assignment table (rtc_read_ok first, imu_ready sixth).
C7_TableOrder ==
    (fpc = "checked") => WarnedFields = Unhealthy(TableOrder, live_health[1])

\* C7 as amended: check_flags reports the unhealthy fields in the declaration
\* order of SnodarLiveHealthFlags: lidar_count_ok, lidar_time_ok,
\* lidar_registers_ok, rtc_read_ok, rtc_time_increased, ina_voltage_ok,
\* ina_current_ok, nrf_temperature_ok, tmp1075_temperature_ok,
\* lidar_pcb_temperature_ok, lidar_soc_temperature_ok, imu_ready,
\* imu_quaternion_ok.
C7_DeclarationOrder ==
    (fpc = "checked") =>
        WarnedFields = Unhealthy(SnodarLiveHealthFlags_fields, live_health[1])

C7_Witness ==
    /\ fpc = "checked"
    /\ health_flags_high = 0
    /\ health_flags_low = 0
    /\ Len(warned) = 13
    /\ warned[1] = "lidar measurement count was not ok"
    /\ warned[4] = "RTC read was not ok"
    /\ warned[12] = "IMU data was not ready"

\* C8: check_flags issues exactly one warning for each field that is false and
\* none for a field that is true; with all 13 fields true it issues nothing.
\* (It has no raising path: it only calls warnings.warn.)
C8_OneWarningPerFalseField ==
    (fpc = "checked") =>
        LET lh == live_health[1]
        IN /\ \A f \in DOMAIN lh :
                 Cardinality({i \in DOMAIN warned : FieldOfWarning(warned[i]) = f})
                     = (IF lh[f] THEN 0 ELSE 1)
           /\ Len(warned) = Cardinality({f \in DOMAIN lh : ~lh[f]})
           /\ (\A f \in DOMAIN lh : lh[f]) => warned = <<>>

\* only lidar_soc_temperature_ok and imu_ready are false: two warnings
C8_Witness ==
    /\ fpc = "checked"
    /\ health_flags_high = 31
    /\ health_flags_low = 255 - 64 - 1
    /\ warned = << "lidar SoC temperature read was not ok",
                   "IMU data was not ready" >>


---------------------------------------------------------------------------
(* Properties of parse_hex_file (HexSpec).                                 *)

\* the k-th (0-based) 128-byte chunk of the input file, decoded
HexRecord(k) == parse_raw_snolog(SubSeq(hex_file, 128 * k + 1, 128 * k + 128))

\* C11: parse_hex_file on an input of L bytes never fails and writes a csv file
\* of one header row followed by exactly floor(L/128) rows, the k-th of them
\* the record decoded from bytes 128k..128k+127; a trailing chunk shorter than
\* 128 bytes leaves no row and raises nothing.
C11_ChunksInOrder ==
    /\ hpc # "failed"
    /\ hpc = "done" =>
           /\ hex_csv.exists
           /\ Len(hex_csv.rows) = 1 + (Len(hex_file) \div 128)
           /\ hex_csv.rows[1] = Snolog_fields
           /\ \A k \in 0..((Len(hex_file) \div 128) - 1) :
                  /\ HexRecord(k).exc = NoValue
                  /\ hex_csv.rows[k + 2] = writerow(HexRecord(k).val[1])

C11_Witness ==
    /\ hpc = "done"
    /\ Len(hex_file) = 257
    /\ Len(hex_csv.rows) = 3
    /\ hex_csv.rows[2] # hex_csv.rows[3]

---------------------------------------------------------------------------
(* Properties of the capture programs (Spec), continued.                   *)

\* the lidar_control thread has ended: it left its loop and returned, or an
\* exception ended it
WorkerEnded == wpc \in {"done", "dead"}

\* C12: whenever the acquisition loop has ended, by cooperative cancellation
\* or because the serial read or write, the decode or the emit step raised,
\* close() has been called on the serial port and the port is closed.
C12_ClosedWhenLoopEnds ==
    WorkerEnded => (port.closes >= 1 /\ ~port.open)

\* the worker is in queue.put on a full queue
PutBlocked ==
    /\ wpc \in {"put_time", "put_dist"}
    /\ Len(queue) = QueueMaxSize

\* C13: after one cancellation request, with the device answering every
\* trigger, the worker is never blocked in queue.put on the full display queue
\* while the main thread has stopped running fetch_data and waits in join()
\* (a state that nothing but a second SIGINT can leave).
C13_NoBlockedPut ==
    (sigint_count = 1 /\ mpc = "join") => ~PutBlocked

\* C14: the first SIGINT only sets interrupted and prints the two status lines:
\* the process keeps running and neither thread, the queue nor the serial port
\* is touched. The second SIGINT ends the process at once, wherever the worker
\* thread is, and close() is not called on the serial port.
C14_FirstFlagsSecondKills ==
    [][(sigint_count' = sigint_count + 1) =>
          IF sigint_count = 0
          THEN /\ interrupted'
               /\ proc' = "running"
               /\ sigint_output' =
                      sigint_output
                      \o <<"\nTerminating. Waiting to collect last data packet...",
                           "Send SIGINT again to terminate immediately">>
               /\ UNCHANGED <<workerVars, mainVars, queue>>
          ELSE /\ proc = "running"
               /\ proc' = "killed"
               /\ wpc' = "killed"
               /\ mpc' = "killed"
               /\ port' = port
               /\ sigint_output' = sigint_output]_vars

C14_Witness ==
    /\ sigint_count = 2
    /\ proc = "killed"
    /\ port.open
    /\ port.closes = 0
    /\ Len(sigint_output) = 2
    /\ cycles >= 1

\* C15: the csv log is append-only across sessions: the rows an earlier
\* session left in the log file are still there, unchanged and in place, at
\* every moment of a new session on the same file.
C15_EarlierRowsKept ==
    /\ Len(csv_file.rows) >= Len(earlier_rows)
    /\ \A i \in 2..Len(earlier_rows) : csv_file.rows[i] = earlier_rows[i]

\* the records acquired so far in this session, in acquisition order: the rows
\* of the csv log after its header
Acquired == Tail(csv_file.rows)

\* the (unix_time, lidar_tc_distance) pair of a csv row
PairOf(row) == <<row[FieldIndex["unix_time"]], row[FieldIndex["lidar_tc_distance"]]>>

\* C16: under every interleaving of the worker and fetch_data, the i-th pair
\* fetch_data yields is the unix_time and the lidar_tc_distance of the i-th
\* record acquired, and a timestamp fetch_data holds while it waits for the
\* distance is the unix_time of the next record: no pair is reordered or split
\* across records.
C16_PairsInOrder ==
    (Running /\ (plotted # <<>> \/ mpc = "fetch")) =>
        /\ csv_file.exists
        /\ Len(Acquired) >= Len(plotted) + (IF mpc = "fetch" THEN 1 ELSE 0)
        /\ \A i \in DOMAIN plotted : plotted[i] = PairOf(Acquired[i])
        /\ mpc = "fetch" =>
               timestamp[1] = PairOf(Acquired[Len(plotted) + 1])[1]

C16_Witness ==
    /\ Len(plotted) = 2
    /\ plotted[1] = PairOf(Acquired[1])
    /\ plotted[2] = PairOf(Acquired[2])
    /\ plotted[1][1] # plotted[2][1]
    /\ plotted[1][2] # plotted[2][2]

\* C17: in manual_data_capture, when the device took longer to answer than
\* measurement_interval - read_delay, the cycle ends without a Pace suspension
\* and the loop is back at its head, ready for the next Trigger, as soon as the
\* record is forwarded: the clock then reads t_start + read_delay + cost. (The
\* worker may also have ended because the serial port failed.)
C17_LateCycleSkipsPace ==
    (prog = "manual" /\ ~interrupted /\ cycles >= 1
       /\ cost > measurement_interval - read_delay
       /\ wpc \in {"loop", "trigger", "dead"}
       /\ failure # "SerialException") =>
        /\ wpc # "dead"
        /\ now = t_start + read_delay + cost

---------------------------------------------------------------------------
(* Properties of parse_raw_snolog (DecodeSpec), continued.                 *)

\* raw_bytes with bit b of the byte at offset i (0-based) inverted
RawWithFlip(i, b) == [raw_bytes EXCEPT ![i + 1] = FlipBit(raw_bytes[i + 1], b)]

\* the item of the format that holds the byte at offset i
ItemAt(i) ==
    CHOOSE k \in DOMAIN FORMAT :
        ItemOffset[k] <= i /\ i < ItemOffset[k] + ItemSize[k]

\* the bytes of item k in raw_bytes
RawItem(k) == SubSeq(raw_bytes, ItemOffset[k] + 1, ItemOffset[k] + ItemSize[k])

\* bit b of the byte at offset i is bit 22 of a float item: the bit that tells
\* a quiet NaN from a signalling one
IsQuietBit(i, b) ==
    /\ FORMAT[ItemAt(i)] = "f"
    /\ b = 6
    /\ i - ItemOffset[ItemAt(i)] = (IF byteorder = "little" THEN 2 ELSE 1)

\* float item k is a NaN whatever its bit 22: the exponent bits are all ones
\* and the lower 22 bits of the fraction are not all zero
IsNaNBesidesQuietBit(k) ==
    /\ (Hi16(RawItem(k)) \div Pow2(7)) % 256 = 255
    /\ (Hi16(RawItem(k)) % Pow2(6)) * Pow2(16) + Lo16(RawItem(k)) # 0

\* the buffer with bit b of byte i inverted decodes to the very same record
SameRecordAfterFlip(i, b) ==
    parse_raw_snolog(RawWithFlip(i, b)).val = parsed[1].val

\* C19 as claimed: two 128-byte buffers that differ in any byte decode to
\* different records: inverting any bit of a decoded buffer gives a buffer
\* that decodes, and to another record.
C19_EveryBitExposed ==
    ParseOk =>
        \A i \in 0..127, b \in 0..7 :
            /\ parse_raw_snolog(RawWithFlip(i, b)).exc = NoValue
            /\ ~SameRecordAfterFlip(i, b)

\* C19 as amended: inverting any bit of a decoded 128-byte buffer gives a
\* buffer that decodes, and to another record, with one exception: where the
\* interpreter quiets signalling NaNs, inverting bit 22 of a float field that
\* is a NaN either way gives the same record. Every other bit of the packet,
\* reserved and checksum included, is exposed in some field.
C19_EveryBitExposedButQuietBit ==
    ParseOk =>
        \A i \in 0..127, b \in 0..7 :
            /\ parse_raw_snolog(RawWithFlip(i, b)).exc = NoValue
            /\ SameRecordAfterFlip(i, b)
                   <=> (snan_quieted /\ IsQuietBit(i, b)
                          /\ IsNaNBesidesQuietBit(ItemAt(i)))

C19_Witness ==
    /\ ParseOk
    /\ snan_quieted
    /\ \E i \in 0..127 : IsQuietBit(i, 6) /\ SameRecordAfterFlip(i, 6)
    /\ ~SameRecordAfterFlip(126, 0)
    /\ ~SameRecordAfterFlip(127, 7)

\* raw_bytes with its last byte, the checksum, replaced by c
RawWithChecksum(c) == [raw_bytes EXCEPT ![128] = c]

---------------------------------------------------------------------------
(* Properties of the capture programs (Spec): the order of a cycle.        *)

\* C21 as claimed: in manual_data_capture the health audit of a record is
\* performed before the record is appended to the csv log: when the worker is
\* at the audit, the record of the cycle is not in the log yet.
C21_AuditBeforeAppend ==
    (prog = "manual" /\ wpc = "health") => RowsAppended = cycles - 1

\* C21 as amended: a cycle of manual_data_capture runs Trigger, Delay, Read,
\* Decode, the append to the csv log, the health audit, the forward to the
\* display, Pace. Up to the append the record of the cycle is not in the log;
\* from the health audit on it is, and nothing of it has been forwarded when
\* the audit begins or when the audit ends the worker.
C21_AppendBeforeAudit ==
    prog = "manual" =>
        /\ wpc \in {"delay", "read", "decode", "append"} =>
               RowsAppended = cycles - 1
        /\ wpc \in {"health", "put_time", "put_dist", "pace"} =>
               RowsAppended = cycles
        /\ wpc = "health" =>
               (health_flags = <<>> /\ Forwarded = 2 * (cycles - 1))
        /\ failure = "AttributeError" =>
               (RowsAppended = cycles /\ Forwarded = 2 * (cycles - 1))

C21_Witness ==
    /\ prog = "manual"
    /\ wpc = "health"
    /\ cycles = 1
    /\ RowsAppended = 1
    /\ csv_file.rows[2] = writerow(snolog[1])
    /\ Forwarded = 0

\* C22: a log written by the binary logger is accepted by the utility: no
\* error is raised and the 13 added columns of every row hold the flags parsed
\* from the row's two flag bytes
C22_ToolkitLogAccepted ==
    (aug_input.kind = "toolkit" /\ aug_input.rows > 0 /\ gpc \in {"done", "failed"})
        => /\ gpc = "done"
           /\ aug_failure = NoValue
           /\ \A i \in 1..aug_input.rows :
                \A f \in Range(SnodarLiveHealthFlags_fields) :
                    aug_file.rows[i][f] =
                        CellText(f, parse_flags(
                            int(ToolkitRow(i)["health_flag_hi"], 10),
                            int(ToolkitRow(i)["health_flags_lo"], 10))[f])

\* the same flag bytes as the file under test, given as a high/low-byte pair
AsPair(in) == [kind |-> "pair", hi |-> in.hi, lo |-> in.lo, rows |-> in.rows]

\* C23: for all hi, lo in 0..255 the value hi*256+lo read from
\* LIVE_HEALTH_FLAGS splits into the high byte hi and the low byte lo, and the
\* flags decoded from it equal parse_flags(hi, lo), which are the flags the
\* utility decodes from the same bytes given as a high/low-byte pair
C23_EncodingsAgree ==
    (aug_input.kind = "mobile" /\ gpc # "start")
        => /\ aug_failure = NoValue
           /\ \A i \in DOMAIN aug_rows :
                LET text == aug_rows[i]["LIVE_HEALTH_FLAGS"]
                    hi == RowHi(aug_input, i)
                    lo == RowLo(aug_input, i)
                    direct == parse_flags(hi, lo)
                    paired == RowHealthFlags(AugFile(AsPair(aug_input)).rows[i])
                IN /\ int(text, 16) = hi * 256 + lo
                   /\ high_byte(text) = hi
                   /\ low_byte(text) = lo
                   /\ \A f \in Range(SnodarLiveHealthFlags_fields) :
                        /\ aug_rows[i][f] = direct[f]
                        /\ aug_rows[i][f] = paired[f]
                        /\ gpc = "done" =>
                             aug_file.rows[i][f] = CellText(f, direct[f])

C23_Witness ==
    /\ aug_input.kind = "mobile" /\ aug_input.hi = 165 /\ aug_input.lo = 90
    /\ gpc = "done"
    /\ aug_file.rows[1]["LIVE_HEALTH_FLAGS"] = <<"a", "5", "5", "a">>
    /\ aug_file.rows[1]["lidar_count_ok"] = "True"
    /\ aug_file.rows[1]["imu_ready"] = "False"

\* the bytes of a field in raw_bytes, least significant first
FieldBytes(name) == LsbFirst(RawItem(FieldIndex[name]))

\* C24: signed fields are decoded as two's complement and unsigned ones as
\* non-negative. An i8 field (lidar_soc_temperature, lidar_pcb_temperature,
\* nrf_temperature) with raw byte b decodes to b when b < 128 and to b - 256
\* otherwise; an i16 field (power_mA, power_V) lies in -32768..32767 and is its
\* two bytes read as two's complement; every u8 field, the two flag bytes
\* included (the code names the high one health_flag_hi), is its raw byte and
\* lies in 0..255.
C24_SignedAndUnsigned ==
    ParseOk =>
        /\ \A f \in {"lidar_soc_temperature", "lidar_pcb_temperature",
                     "nrf_temperature"} :
             LET b == raw_bytes[FieldFirst(f) + 1]
             IN /\ FORMAT[FieldIndex[f]] = "b"
                /\ ParsedRecord[f] = (IF b < 128 THEN b ELSE b - 256)
        /\ \A f \in {"power_mA", "power_V"} :
             LET u == FieldBytes(f)[1] + 256 * FieldBytes(f)[2]
             IN /\ FORMAT[FieldIndex[f]] = "h"
                /\ ParsedRecord[f] \in -32768..32767
                /\ ParsedRecord[f] = (IF u < 32768 THEN u ELSE u - 65536)
        /\ \A k \in DOMAIN FORMAT :
             FORMAT[k] = "B" =>
                 /\ ParsedRecord[Snolog_fields[k]] \in 0..255
                 /\ ParsedRecord[Snolog_fields[k]] = raw_bytes[ItemOffset[k] + 1]
        /\ {"health_flags_lo", "health_flag_hi"} \subseteq
               {Snolog_fields[k] : k \in {j \in DOMAIN FORMAT : FORMAT[j] = "B"}}

\* a packet of 0xff bytes: the signed fields are negative, the u8 fields 255
C24_Witness ==
    /\ ParseOk
    /\ raw_bytes = Buf(128, "ff")
    /\ ParsedRecord["nrf_temperature"] = -1
    /\ ParsedRecord["power_mA"] = -1
    /\ ParsedRecord["health_flag_hi"] = 255

\* C25: the display queue never holds more than 2 items; while it is full the
\* worker's put cannot complete, and only a get of the consumer makes room;
\* the consumer takes its two items only after it saw the queue full, and its
\* second get always finds an item, so it never blocks.
C25_BoundedQueueConsumerNeverBlocks ==
    /\ Len(queue) <= 2
    /\ PutBlocked => (~ENABLED WorkerPutTime /\ ~ENABLED WorkerPutDistance)
    /\ (PutBlocked /\ Running /\ mpc = "plot") => ENABLED FetchTimestamp
    /\ mpc = "fetch" => (queue # <<>> /\ ENABLED FetchDistance)
    /\ Len(queue) < 2 => ~ENABLED FetchTimestamp

\* the worker waits in put on the full queue while main shows the plot
C25_Witness ==
    /\ Running
    /\ PutBlocked
    /\ mpc = "plot"
    /\ cycles = 2
    /\ wpc = "put_time"
    /\ queue[1] # snolog[1]["unix_time"]

\* C26: in rs232_data_capture.lidar_control, for every measurement_interval >= 0
\* and read_delay >= 0, read_delay > measurement_interval included, the pause
\* at the end of a cycle is never requested with a negative length, so the loop
\* does not fail in its Pace step.
C26_PauseNeverNegative ==
    prog = "rs232" => failure # "ValueError"

\* C27: every buffer handed to parse_raw_snolog by the acquisition loop has
\* exactly 128 bytes, so the decoder's length error does not occur in the loop;
\* and each Trigger is followed by exactly one Read: the Read step is entered
\* only from the delay that follows a Trigger, it is left only with a packet to
\* decode or with a failure of the port, and the buffer changes in no other
\* step (as long as a second SIGINT does not end the process).
C27_ReadReturns128 ==
    [][proc' # "killed" =>
         /\ wpc' = "decode" => Len(raw_snolog') = 128
         /\ failure' # "struct.error"
         /\ (wpc = "trigger" /\ wpc' # wpc) => wpc' \in {"delay", "dead"}
         /\ (wpc = "delay" /\ wpc' # wpc) => wpc' = "read"
         /\ (wpc = "read" /\ wpc' # wpc) => wpc' \in {"decode", "dead"}
         /\ (wpc' = "read" /\ wpc' # wpc) => wpc = "delay"
         /\ raw_snolog' # raw_snolog => (wpc = "read" /\ wpc' = "decode")
         /\ (wpc = "read" /\ wpc' = "decode") => raw_snolog' # raw_snolog
      ]_vars

\* the second cycle's packet, read after a delay, is about to be decoded
C27_Witness ==
    /\ wpc = "decode"
    /\ cycles = 2
    /\ read_delay = 1
    /\ Len(raw_snolog) = 128
    /\ failure = NoValue

\* C28: log before display. At every moment the number of records whose
\* (timestamp, distance) pair has been put on the display queue, even in part,
\* is at most the number of rows appended to the csv log; once the worker has
\* opened the port and created the log, the log holds the header followed by one row per decoded record, in the
\* order of acquisition: the newest row is the record just decoded, and the
\* k-th pair forwarded is the k-th row's.
C28_LogBeforeDisplay ==
    /\ (Forwarded + 1) \div 2 <= RowsAppended
    /\ (port.open \/ port.closes > 0) =>
         /\ csv_file.exists
         /\ csv_file.rows[1] = Snolog_fields
         /\ RowsAppended <= cycles
         /\ wpc \in {"delay", "read", "decode", "append"} => RowsAppended = cycles - 1
         /\ wpc \in {"health", "put_time", "put_dist", "pace"} =>
              /\ RowsAppended = cycles
              /\ csv_file.rows[Len(csv_file.rows)] = writerow(snolog[1])
         /\ \A k \in DOMAIN plotted : plotted[k] = PairOf(Acquired[k])
         /\ \A k \in DOMAIN queue :
              LET n == 2 * Len(plotted) + (IF mpc = "fetch" THEN 1 ELSE 0) + k
              IN queue[k] = PairOf(Acquired[(n + 1) \div 2])[2 - (n % 2)]

\* two records logged in order, the first shown, the second's pair queued
C28_Witness ==
    /\ RowsAppended = 2
    /\ Len(plotted) = 1
    /\ Len(queue) = 2
    /\ plotted[1] = PairOf(csv_file.rows[2])
    /\ queue = PairOf(csv_file.rows[3])
    /\ csv_file.rows[2] # csv_file.rows[3]

EntriesPut == Len(queue) + Len(plotted)

\* C29: in ASCII mode every line read from the transport produces exactly one
\* entry on the display queue and exactly one appended csv row holding the
\* same positionally parsed numbers, in arrival order: whenever the reader is
\* not in the middle of a line, the lines read, the entries put and the rows
\* appended are equally many, and the k-th row is the k-th line's numbers.
C29_EveryLineQueuedAndLogged ==
    (proc = "running" /\ wpc \notin {"parse", "put", "append"}) =>
        /\ failure = NoValue
        /\ EntriesPut = Len(lines)
        /\ RowsAppended = Len(lines)
        /\ \A k \in DOMAIN lines :
             csv_file.rows[k + 1] = datarow(floats(split(strip(lines[k]))).val)

===========================================================================
